---- MODULE Spec2Model ----
(***************************************************************************)
(* Model of the no-flip-tester workbench: the instance generator over an   *)
(* alpha-forest graph (AVL edge index + link/cut forest), the interval     *)
(* reformulation, the AMC solver with its interval and segment trees, and  *)
(* Kowalik's offline orientation strategy.                                 *)
(***************************************************************************)
EXTENDS Integers, Sequences, FiniteSets, TLC

(***************************************************************************)
(* Bounds of the model.                                                    *)
(***************************************************************************)
\* generator runs: vertices, forests, commands
GenMaxV == 3

GenMaxAlpha == 2

GenMaxLen == 3

(***************************************************************************)
(* Generic helpers.                                                        *)
(***************************************************************************)
NULL == <<>>

max(a, b) == IF a >= b THEN a ELSE b

Range(seq) == {seq[i] : i \in DOMAIN seq}

min(a, b) == IF a <= b THEN a ELSE b

\* operator< of std::pair<int,int>: lexicographic
PairLess(a, b) == a[1] < b[1] \/ (a[1] = b[1] /\ a[2] < b[2])

(***************************************************************************)
(* AVLTree<pair<int,int>>  (src/src/avl-tree.cpp)                          *)
(* A node is a record [key, count, height, left, right]; nullptr is NULL.  *)
(***************************************************************************)
AVLTreeNode(key) ==
    [key |-> key, count |-> 1, height |-> 1, left |-> NULL, right |-> NULL]

getCount(node) == IF node = NULL THEN 0 ELSE node.count

getHeight(node) == IF node = NULL THEN 0 ELSE node.height

updateAuxValues(node) ==
    [node EXCEPT !.count = 1 + getCount(node.left) + getCount(node.right),
                 !.height = 1 + max(getHeight(node.left), getHeight(node.right))]

rotateRight(node) ==
    LET root == node.left
        lowered == updateAuxValues([node EXCEPT !.left = root.right])
    IN  updateAuxValues([root EXCEPT !.right = lowered])

rotateLeft(node) ==
    LET root == node.right
        lowered == updateAuxValues([node EXCEPT !.right = root.left])
    IN  updateAuxValues([root EXCEPT !.left = lowered])

\* the assertion at the head of balanceTree
balanceAssertOk(root) ==
    LET rootBalance == getHeight(root.left) - getHeight(root.right)
    IN  rootBalance >= -2 /\ rootBalance <= 2

\* mutant: balanceTree without the double rotations
balanceTreeSingleRotation(root) ==
    LET rootBalance == getHeight(root.left) - getHeight(root.right)
    IN  IF rootBalance = 2 THEN rotateRight(root)
        ELSE IF rootBalance = -2 THEN rotateLeft(root)
        ELSE root

balanceTree(root) ==
    LET rootBalance == getHeight(root.left) - getHeight(root.right)
    IN  IF rootBalance = 2
        THEN LET leftChild == root.left
                 leftChildBalance ==
                     getHeight(leftChild.left) - getHeight(leftChild.right)
             IN  IF leftChildBalance < 0
                 THEN rotateRight([root EXCEPT !.left = rotateLeft(leftChild)])
                 ELSE rotateRight(root)
        ELSE IF rootBalance = -2
        THEN LET rightChild == root.right
                 rightChildBalance ==
                     getHeight(rightChild.left) - getHeight(rightChild.right)
             IN  IF rightChildBalance > 0
                 THEN rotateLeft([root EXCEPT !.right = rotateRight(rightChild)])
                 ELSE rotateLeft(root)
        ELSE root

RECURSIVE getMinNode(_)
getMinNode(node) ==
    IF node.left = NULL THEN node ELSE getMinNode(node.left)

RECURSIVE search(_, _)
search(node, key) ==
    IF node = NULL THEN NULL
    ELSE IF node.key = key THEN node
    ELSE IF PairLess(key, node.key) THEN search(node.left, key)
    ELSE search(node.right, key)

\* mutant: searchNth that does not discount the node itself on the right
RECURSIVE searchNthNoSelf(_, _)
searchNthNoSelf(node, n) ==
    LET leftCount == getCount(node.left)
    IN  IF leftCount = n \/ node.right = NULL THEN node
        ELSE IF leftCount > n THEN searchNthNoSelf(node.left, n)
        ELSE searchNthNoSelf(node.right, n - leftCount)

RECURSIVE searchNth(_, _)
searchNth(node, n) ==
    LET leftCount == getCount(node.left)
    IN  IF leftCount = n THEN node
        ELSE IF leftCount > n THEN searchNth(node.left, n)
        ELSE searchNth(node.right, n - leftCount - 1)

RECURSIVE insertHelper(_, _)
insertHelper(node, key) ==
    IF node = NULL THEN AVLTreeNode(key)
    ELSE IF ~PairLess(node.key, key)
         THEN balanceTree(updateAuxValues(
                  [node EXCEPT !.left = insertHelper(node.left, key)]))
         ELSE balanceTree(updateAuxValues(
                  [node EXCEPT !.right = insertHelper(node.right, key)]))

RECURSIVE dropMinNode(_)
dropMinNode(node) ==
    IF node.left = NULL THEN node.right
    ELSE balanceTree(updateAuxValues(
             [node EXCEPT !.left = dropMinNode(node.left)]))

\* returns [node |-> the new subtree, hit |-> how often nodeCount-- ran]
RECURSIVE removeHelper(_, _)
removeHelper(node, key) ==
    IF node = NULL THEN [node |-> NULL, hit |-> 0]
    ELSE IF PairLess(key, node.key)
    THEN LET sub == removeHelper(node.left, key)
         IN  [node |-> balanceTree(updateAuxValues(
                           [node EXCEPT !.left = sub.node])),
              hit |-> sub.hit]
    ELSE IF PairLess(node.key, key)
    THEN LET sub == removeHelper(node.right, key)
         IN  [node |-> balanceTree(updateAuxValues(
                           [node EXCEPT !.right = sub.node])),
              hit |-> sub.hit]
    ELSE LET leftChild == node.left
             rightChild == node.right
         IN  IF leftChild = NULL \/ rightChild = NULL
             THEN [node |-> IF leftChild = NULL THEN rightChild ELSE leftChild,
                   hit |-> 1]
             ELSE LET successor == getMinNode(rightChild)
                      moved == [successor EXCEPT
                                   !.right = dropMinNode(rightChild),
                                   !.left = leftChild]
                  IN  [node |-> balanceTree(updateAuxValues(moved)),
                       hit |-> 1]

RECURSIVE collectKeysHelper(_)
collectKeysHelper(node) ==
    IF node = NULL THEN <<>>
    ELSE <<node.key>> \o collectKeysHelper(node.left)
                      \o collectKeysHelper(node.right)

\* the AVLTree object: [root, nodeCount]
AVLTree == [root |-> NULL, nodeCount |-> 0]

AVLinsert(tree, key) ==
    [root |-> insertHelper(tree.root, key), nodeCount |-> tree.nodeCount + 1]

AVLremove(tree, key) ==
    LET res == removeHelper(tree.root, key)
    IN  [root |-> res.node, nodeCount |-> tree.nodeCount - res.hit]

AVLcontains(tree, key) == search(tree.root, key) # NULL

\* defined for n < nodeCount (otherwise the code throws domain_error)
AVLgetNth(tree, n) == searchNth(tree.root, n).key

collectKeys(tree) == collectKeysHelper(tree.root)

(***************************************************************************)
(* LinkCutTrees  (src/src/link-cut-tree.cpp)                               *)
(* nodes is the vector of V+1 LinkCutTreeNode records, indexed 0..V; a     *)
(* pointer is an index into it and nullptr is -1.                          *)
(***************************************************************************)
nullptr == -1

\* nodes.resize(V+1) value-initialises; labels 1..V are then assigned
LinkCutTrees(V) ==
    [i \in 0..V |-> [label |-> i, left |-> nullptr, right |-> nullptr,
                     parent |-> nullptr, reversed |-> FALSE]]

toggleReversed(nodes, x) ==
    IF x = nullptr THEN nodes
    ELSE [nodes EXCEPT ![x].reversed = ~nodes[x].reversed]

\* "if (left) left->reversed ^= true; if (right) right->reversed ^= true"
pushToChildren(nodes, x) ==
    toggleReversed(toggleReversed(nodes, nodes[x].left), nodes[x].right)

push(nodes, x) ==
    IF nodes[x].reversed
    THEN pushToChildren([nodes EXCEPT ![x].reversed = FALSE,
                                      ![x].left = nodes[x].right,
                                      ![x].right = nodes[x].left], x)
    ELSE nodes

isRoot(nodes, x) ==
    \/ nodes[x].parent = nullptr
    \/ /\ nodes[nodes[x].parent].left # x
       /\ nodes[nodes[x].parent].right # x

\* rotate, first statement: grand's slot that holds parent now holds child
rotateGrandSlot(nodes, child, parent, grand) ==
    IF ~isRoot(nodes, parent)
    THEN IF nodes[grand].right = parent
         THEN [nodes EXCEPT ![grand].right = child]
         ELSE [nodes EXCEPT ![grand].left = child]
    ELSE nodes

\* "if (x) x->parent = p"
setParentIfAny(nodes, x, p) ==
    IF x # nullptr THEN [nodes EXCEPT ![x].parent = p] ELSE nodes

\* rotate, the two branches that exchange child and parent
rotateExchange(nodes, child, parent) ==
    IF nodes[parent].left = child
    THEN setParentIfAny([nodes EXCEPT ![parent].left = nodes[child].right,
                                      ![child].right = parent],
                        nodes[child].right, parent)
    ELSE setParentIfAny([nodes EXCEPT ![parent].right = nodes[child].left,
                                      ![child].left = parent],
                        nodes[child].left, parent)

\* rotate with parent and grand as read on entry
rotateAround(nodes, child, parent, grand) ==
    [rotateExchange(
         push(push(rotateGrandSlot(nodes, child, parent, grand), parent),
              child),
         child, parent)
     EXCEPT ![parent].parent = child, ![child].parent = grand]

rotate(nodes, child) ==
    rotateAround(nodes, child, nodes[child].parent,
                 nodes[nodes[child].parent].parent)

\* one round of the while loop of splay
splayRound(nodes, child, parent, grand) ==
    rotate(IF ~isRoot(nodes, parent)
           THEN rotate(nodes,
                    IF (nodes[grand].right = parent)
                           = (nodes[parent].right = child)
                    THEN parent ELSE child)
           ELSE nodes,
           child)

RECURSIVE splay(_, _)
splay(nodes, child) ==
    IF ~isRoot(nodes, child)
    THEN splay(splayRound(nodes, child, nodes[child].parent,
                          nodes[nodes[child].parent].parent),
               child)
    ELSE push(nodes, child)

\* the for loop of access: returns [nodes, last]
RECURSIVE accessLoop(_, _, _)
RECURSIVE accessAdvance(_, _)
accessLoop(nodes, loc, last) ==
    IF loc = nullptr THEN [nodes |-> nodes, last |-> last]
    ELSE accessAdvance([splay(nodes, loc) EXCEPT ![loc].right = last], loc)

\* "last = loc; loc = loc->parent"
accessAdvance(nodes, loc) == accessLoop(nodes, nodes[loc].parent, loc)

accessFinish(looped, v) ==
    [nodes |-> splay(looped.nodes, v), last |-> looped.last]

access(nodes, v) == accessFinish(accessLoop(nodes, v, nullptr), v)

\* mutant: makeRoot that detaches the left subtree without reversing it
makeRootDetachNoReverse(nodes, v) ==
    IF nodes[v].left # nullptr
    THEN [nodes EXCEPT ![v].left = nullptr]
    ELSE nodes

\* "if (child->left) child->left->reversed ^= true, child->left = nullptr"
makeRootDetach(nodes, v) ==
    IF nodes[v].left # nullptr
    THEN [toggleReversed(nodes, nodes[v].left) EXCEPT ![v].left = nullptr]
    ELSE nodes

makeRoot(nodes, v) == makeRootDetach(access(nodes, v).nodes, v)

link(nodes, u, v) ==
    [makeRoot(nodes, v) EXCEPT ![v].parent = u]

\* "if (nodes[v].left) { nodes[v].left->parent = nullptr; nodes[v].left = nullptr; }"
cutDetach(nodes, v) ==
    IF nodes[v].left # nullptr
    THEN [nodes EXCEPT ![nodes[v].left].parent = nullptr, ![v].left = nullptr]
    ELSE nodes

cut(nodes, u, v) == cutDetach(access(makeRoot(nodes, u), v).nodes, v)

connectedResult(nodes, u) ==
    [nodes |-> nodes, result |-> nodes[u].parent # nullptr]

\* connected mutates the splay trees: returns [nodes, result]
connected(nodes, u, v) ==
    connectedResult(access(access(nodes, u).nodes, v).nodes, u)

(***************************************************************************)
(* Forest  (src/src/graphs.cpp)                                            *)
(* A forest on vertices 0..V-1 is [V, edgeCount, edges, links].            *)
(***************************************************************************)
Forest(V) ==
    [V |-> V, edgeCount |-> 0, edges |-> AVLTree, links |-> LinkCutTrees(V)]

canon(va, vb) == IF va > vb THEN <<vb, va>> ELSE <<va, vb>>

ForestIsAdjacent(f, va, vb) == AVLcontains(f.edges, canon(va, vb))

\* mutant: insertEdge that ignores the answer of links.connected
ForestInsertCanonicalNoCycleTest(f, e, conn) ==
    [forest |-> [f EXCEPT !.edges = AVLinsert(f.edges, e),
                          !.links = link(conn.nodes, e[1], e[2]),
                          !.edgeCount = f.edgeCount + 1],
     ok |-> TRUE]

\* insertEdge after the swap and the va == vb test, conn being the
\* outcome of links.connected(va, vb)
ForestInsertCanonical(f, e, conn) ==
    IF conn.result
    THEN [forest |-> [f EXCEPT !.links = conn.nodes], ok |-> FALSE]
    ELSE [forest |-> [f EXCEPT !.edges = AVLinsert(f.edges, e),
                               !.links = link(conn.nodes, e[1], e[2]),
                               !.edgeCount = f.edgeCount + 1],
          ok |-> TRUE]

\* returns [forest, ok]; a refused insertion may still have run
\* links.connected, which reshapes the splay trees
ForestInsertEdge(f, va, vb) ==
    IF va = vb THEN [forest |-> f, ok |-> FALSE]
    ELSE ForestInsertCanonical(f, canon(va, vb),
             connected(f.links, canon(va, vb)[1], canon(va, vb)[2]))

ForestDeleteEdge(f, va, vb) ==
    LET e == canon(va, vb)
    IN  IF ForestIsAdjacent(f, e[1], e[2])
        THEN [f EXCEPT !.edges = AVLremove(f.edges, e),
                       !.links = cut(f.links, e[1], e[2]),
                       !.edgeCount = f.edgeCount - 1]
        ELSE f

ForestGetEdge(f, index) == AVLgetNth(f.edges, index)

ForestGetAllEdges(f) == collectKeys(f.edges)

(***************************************************************************)
(* BoundedArbGraph  (src/src/graphs.cpp)                                   *)
(* forests is the vector of alpha forests; forestIndex i of the code is    *)
(* position i+1 of the sequence.                                           *)
(***************************************************************************)
BoundedArbGraph(V, alpha) == [i \in 1..alpha |-> Forest(V)]

\* mutant: isAdjacent that asks the first forest only
GraphIsAdjacentFirstForest(forests, va, vb) ==
    ForestIsAdjacent(forests[1], va, vb)

GraphIsAdjacent(forests, va, vb) ==
    \E i \in DOMAIN forests : ForestIsAdjacent(forests[i], va, vb)

\* mutant: insertEdge without the adjacency test across the forests
GraphInsertEdgeNoAdjacencyTest(forests, forestIndex, va, vb) ==
    LET res == ForestInsertEdge(forests[forestIndex + 1], va, vb)
    IN  [graph |-> [forests EXCEPT ![forestIndex + 1] = res.forest],
         ok |-> res.ok]

\* returns [graph, ok]
GraphInsertEdge(forests, forestIndex, va, vb) ==
    IF GraphIsAdjacent(forests, va, vb)
    THEN [graph |-> forests, ok |-> FALSE]
    ELSE LET res == ForestInsertEdge(forests[forestIndex + 1], va, vb)
         IN  [graph |-> [forests EXCEPT ![forestIndex + 1] = res.forest],
              ok |-> res.ok]

GraphDeleteEdge(forests, va, vb) ==
    [i \in DOMAIN forests |-> ForestDeleteEdge(forests[i], va, vb)]

RECURSIVE sumEdgeCounts(_, _)
sumEdgeCounts(forests, i) ==
    IF i > Len(forests) THEN 0
    ELSE forests[i].edgeCount + sumEdgeCounts(forests, i + 1)

getEdgeCount(forests) == sumEdgeCounts(forests, 1)

\* the loop of getEdge, from forest i on; defined for index < getEdgeCount
RECURSIVE getEdgeFrom(_, _, _)
getEdgeFrom(forests, i, index) ==
    IF index - forests[i].edgeCount >= 0
    THEN getEdgeFrom(forests, i + 1, index - forests[i].edgeCount)
    ELSE ForestGetEdge(forests[i], index)

GraphGetEdge(forests, index) == getEdgeFrom(forests, 1, index)

(***************************************************************************)
(* State.                                                                  *)
(***************************************************************************)
VARIABLES
    pc,             \* position in the routine being run
    instance,       \* OrientationProblemInstance [V, alpha, sequence]
    sequenceLen,    \* argument of generateInstance
    graph,          \* the generator's BoundedArbGraph (vector of forests)
    purgeCountdown, \* purge phase is active iff purgeCountdown > 0
    time,           \* loop counter of generateInstance
    ipi,            \* IntervalProblemInstance [V, alpha, timeframe, intervals]
    solver,         \* the locals of solveInstance and its maxOutdegree argument
    kowalik,        \* the locals of orientByKowalikStrategy
    brodal,         \* the locals of orientByBrodalStrategy
    avl,            \* an AVLTree object with a caller of its own
    script,         \* the calls that caller still has to make, if scripted
    links,          \* the nodes vector of a LinkCutTrees object
    linked,         \* the edges its caller has linked and not cut
    forestObj,      \* a Forest object with a caller of its own
    unit,           \* an object of one more class with a caller of its own
    reference,      \* what that caller has put into the object and not taken out
    ret             \* what the last call on one of these objects returned

genVars == <<sequenceLen, graph, purgeCountdown, time>>

pipeVars == <<ipi, solver, kowalik>>

unitVars == <<brodal, avl, script, links, linked, forestObj, unit, reference, ret>>

vars == <<pc, instance, genVars, pipeVars, unitVars>>

\* no object of the second group has been constructed
unitIdle ==
    /\ brodal = NULL
    /\ avl = NULL
    /\ script = NULL
    /\ links = NULL
    /\ linked = NULL
    /\ forestObj = NULL
    /\ unit = NULL
    /\ reference = NULL
    /\ ret = NULL

INSERT == "INSERT"

DELETE == "DELETE"

Command(operation, nodes) == [operation |-> operation, nodes |-> nodes]

(***************************************************************************)
(* Generator::generateInstance  (src/src/generators.cpp)                   *)
(* One loop iteration is one step, except that the rejection loop of       *)
(* insertRandomEdge takes one step per sampled triple.                     *)
(***************************************************************************)
\* mutant: the enforced cases without the purge
enforcedTypeIgnoresPurge(drawn, forests, countdown, V, alpha) ==
    IF getEdgeCount(forests) = 0 THEN INSERT
    ELSE IF getEdgeCount(forests) = (V - 1) * alpha THEN DELETE
    ELSE drawn

\* "special cases where operation type is enforced"
enforcedType(drawn, forests, countdown, V, alpha) ==
    IF getEdgeCount(forests) = 0 THEN INSERT
    ELSE IF getEdgeCount(forests) = (V - 1) * alpha THEN DELETE
    ELSE IF countdown > 0 THEN DELETE
    ELSE drawn

\* mutant: a purge gate that never counts down
purgeGateNoCountdown(countdown, activate, length) ==
    IF countdown = 0 /\ activate THEN length
    ELSE countdown

\* the purge gate at the end of an iteration; activate and length are the
\* two random draws, length being used only when the purge is activated
purgeGate(countdown, activate, length) ==
    IF countdown = 0 /\ activate THEN length
    ELSE IF countdown > 0 THEN countdown - 1
    ELSE countdown

GenInit ==
    /\ pc = "loop"
    /\ \E v \in 2..GenMaxV, a \in 1..GenMaxAlpha :
          /\ instance = [V |-> v, alpha |-> a, sequence |-> <<>>]
          /\ graph = BoundedArbGraph(v, a)
    /\ sequenceLen \in 0..GenMaxLen
    /\ purgeCountdown = 0
    /\ time = 0
    /\ ipi = NULL
    /\ solver = NULL
    /\ kowalik = NULL
    /\ unitIdle

\* the iteration draws INSERT (or is forced to): enter insertRandomEdge
GenBeginInsert ==
    /\ pc = "loop"
    /\ time < sequenceLen
    /\ \E drawn \in {INSERT, DELETE} :
          enforcedType(drawn, graph, purgeCountdown,
                       instance.V, instance.alpha) = INSERT
    /\ pc' = "insert"
    /\ UNCHANGED <<unitVars, instance, genVars, pipeVars>>

\* one round of the do-while loop whose insertEdge call returns false
GenInsertReject ==
    /\ pc = "insert"
    /\ \E forestIndex \in 0..(instance.alpha - 1),
          endpointFirst \in 0..(instance.V - 1),
          endpointSecond \in 0..(instance.V - 1) :
          LET res == GraphInsertEdge(graph, forestIndex,
                                     endpointFirst, endpointSecond)
          IN  /\ ~res.ok
              /\ graph' = res.graph
    /\ UNCHANGED <<unitVars, pc, instance, sequenceLen, purgeCountdown, time,
                   pipeVars>>

\* the round whose insertEdge call returns true, and the rest of the iteration
GenInsertAccept ==
    /\ pc = "insert"
    /\ \E forestIndex \in 0..(instance.alpha - 1),
          endpointFirst \in 0..(instance.V - 1),
          endpointSecond \in 0..(instance.V - 1),
          activate \in BOOLEAN :
          LET res == GraphInsertEdge(graph, forestIndex,
                                     endpointFirst, endpointSecond)
              currentEdge == canon(endpointFirst, endpointSecond)
          IN  /\ res.ok
              /\ graph' = res.graph
              /\ instance' = [instance EXCEPT !.sequence =
                     Append(@, Command(INSERT, currentEdge))]
              /\ \E length \in 0..(getEdgeCount(res.graph) \div 2) :
                    purgeCountdown' = purgeGate(purgeCountdown, activate, length)
    /\ time' = time + 1
    /\ pc' = "loop"
    /\ UNCHANGED <<unitVars, sequenceLen, pipeVars>>

\* an iteration that deletes: deleteRandomEdge and the rest of the iteration
GenDelete ==
    /\ pc = "loop"
    /\ time < sequenceLen
    /\ \E drawn \in {INSERT, DELETE} :
          enforcedType(drawn, graph, purgeCountdown,
                       instance.V, instance.alpha) = DELETE
    /\ \E removedEdgeIndex \in 0..(getEdgeCount(graph) - 1),
          activate \in BOOLEAN :
          LET edgeRemoved == GraphGetEdge(graph, removedEdgeIndex)
              after == GraphDeleteEdge(graph, edgeRemoved[1], edgeRemoved[2])
          IN  /\ graph' = after
              /\ instance' = [instance EXCEPT !.sequence =
                     Append(@, Command(DELETE, edgeRemoved))]
              /\ \E length \in 0..(getEdgeCount(after) \div 2) :
                    purgeCountdown' = purgeGate(purgeCountdown, activate, length)
    /\ time' = time + 1
    /\ UNCHANGED <<unitVars, pc, sequenceLen, pipeVars>>

\* the loop condition fails: generateInstance returns instance
GenReturn ==
    /\ pc = "loop"
    /\ time >= sequenceLen
    /\ pc' = "returned"
    /\ UNCHANGED <<unitVars, instance, genVars, pipeVars>>

GenNext ==
    \/ GenBeginInsert
    \/ GenInsertReject
    \/ GenInsertAccept
    \/ GenDelete
    \/ GenReturn

SpecGen == GenInit /\ [][GenNext]_vars

(***************************************************************************)
(* Reference notions used to state properties: plain edge sets.            *)
(***************************************************************************)
RECURSIVE RefReach(_, _)
RefReach(E, S) ==
    LET nxt == S \cup {e[2] : e \in {d \in E : d[1] \in S}}
                  \cup {e[1] : e \in {d \in E : d[2] \in S}}
    IN  IF nxt = S THEN S ELSE RefReach(E, nxt)

RefConnected(E, u, v) == v \in RefReach(E, {u})

\* seq[i..] replays on the forests F (a tuple of edge sets): every Insert
\* names a canonical absent edge that some forest takes without a cycle,
\* every Delete names a present edge
RECURSIVE ValidFrom(_, _, _, _)
ValidFrom(seq, i, F, V) ==
    IF i > Len(seq) THEN TRUE
    ELSE LET c == seq[i]
             u == c.nodes[1]
             v == c.nodes[2]
         IN  /\ u \in 0..(V - 1) /\ v \in 0..(V - 1) /\ u < v
             /\ IF c.operation = INSERT
                THEN /\ \A j \in DOMAIN F : c.nodes \notin F[j]
                     /\ \E j \in DOMAIN F :
                           /\ ~RefConnected(F[j], u, v)
                           /\ ValidFrom(seq, i + 1,
                                  [F EXCEPT ![j] = @ \cup {c.nodes}], V)
                ELSE /\ \E j \in DOMAIN F : c.nodes \in F[j]
                     /\ ValidFrom(seq, i + 1,
                            [j \in DOMAIN F |-> F[j] \ {c.nodes}], V)

ValidSequence(V, alpha, seq) ==
    ValidFrom(seq, 1, [j \in 1..alpha |-> {}], V)

(***************************************************************************)
(* Properties of the generator.                                            *)
(***************************************************************************)
\* C3: every sequence generateInstance builds replays on an empty graph of
\* alpha forests (Insert: canonical, absent, acyclic in some forest; Delete:
\* present), and the returned sequence has exactly sequenceLen commands.
C3_GeneratedSequenceValid ==
    /\ ValidSequence(instance.V, instance.alpha, instance.sequence)
    /\ pc = "returned" => Len(instance.sequence) = sequenceLen

C3_Witness ==
    /\ pc = "returned"
    /\ instance.alpha = 2
    /\ Len(instance.sequence) >= 3
    /\ \E i \in DOMAIN instance.sequence :
          instance.sequence[i].operation = DELETE

\* C4: whenever the rejection loop of insertRandomEdge is running, some
\* triple (forestIndex, a, b) makes BoundedArbGraph::insertEdge return true.
C4_InsertAlwaysPossible ==
    pc = "insert" =>
        \E forestIndex \in 0..(instance.alpha - 1),
           a \in 0..(instance.V - 1), b \in 0..(instance.V - 1) :
           GraphInsertEdge(graph, forestIndex, a, b).ok

(***************************************************************************)
(* Interval and convertInstance  (src/src/converter.h, converter.cpp)      *)
(***************************************************************************)
NOT_SET == "NOT_SET"

FIRST_NODE_SELECTED == "FIRST_NODE_SELECTED"

SECOND_NODE_SELECTED == "SECOND_NODE_SELECTED"

\* Interval intv = {startTime, endTime, nodes, NOT_SET, 0}
Interval(startTime, endTime, nodes) ==
    [startTime |-> startTime, endTime |-> endTime, nodes |-> nodes,
     status |-> NOT_SET, score |-> 0]

\* Interval::operator==
IntervalEq(a, b) == a.startTime = b.startTime /\ a.endTime = b.endTime

IntervalLessNonStrict(a, b) ==
    a.startTime <= b.startTime \/
    (a.startTime = b.startTime /\ a.endTime < b.endTime)

\* Interval::operator<
IntervalLess(a, b) ==
    a.startTime < b.startTime \/
    (a.startTime = b.startTime /\ a.endTime < b.endTime)

\* Interval::getAssignedNode (asserts status != NOT_SET)
getAssignedNode(intv) ==
    IF intv.status = FIRST_NODE_SELECTED THEN intv.nodes[1] ELSE intv.nodes[2]

\* one round of the first loop: history.find, then push_back or emplace
recordTimestamp(history, nodes, currentTime) ==
    IF nodes \in DOMAIN history
    THEN [history EXCEPT ![nodes] = Append(@, currentTime)]
    ELSE [k \in DOMAIN history \cup {nodes} |->
             IF k = nodes THEN <<currentTime>> ELSE history[k]]

\* the first loop of convertInstance, from command number currentTime on
RECURSIVE buildHistory(_, _, _)
buildHistory(sequence, currentTime, history) ==
    IF currentTime >= Len(sequence) THEN history
    ELSE buildHistory(sequence, currentTime + 1,
             recordTimestamp(history, sequence[currentTime + 1].nodes,
                             currentTime))

\* iteration order of std::map< pair<int,int>, ... >: ascending keys
RECURSIVE orderedKeys(_)
orderedKeys(keys) ==
    IF keys = {} THEN <<>>
    ELSE LET least == CHOOSE k \in keys :
                         \A o \in keys \ {k} : PairLess(k, o)
         IN  <<least>> \o orderedKeys(keys \ {least})

closedIntervalsSameStamp(nodes, timestamps) ==
    [i \in 1..(Len(timestamps) \div 2) |->
        Interval(timestamps[2 * i - 1], timestamps[2 * i - 1], nodes)]

\* timestamps[2*i] is an insertion, timestamps[2*i+1] the deletion after it
closedIntervals(nodes, timestamps) ==
    [i \in 1..(Len(timestamps) \div 2) |->
        Interval(timestamps[2 * i - 1], timestamps[2 * i], nodes)]

openIntervalLastCommand(nodes, timestamps, size) ==
    IF Len(timestamps) % 2 = 1
    THEN <<Interval(timestamps[Len(timestamps)], size - 1, nodes)>>
    ELSE <<>>

\* the edge that remains after all operations ends at sequence.size()
openInterval(nodes, timestamps, size) ==
    IF Len(timestamps) % 2 = 1
    THEN <<Interval(timestamps[Len(timestamps)], size, nodes)>>
    ELSE <<>>

\* the second loop of convertInstance over the remaining keys
RECURSIVE collectIntervals(_, _, _)
collectIntervals(history, keys, size) ==
    IF keys = <<>> THEN <<>>
    ELSE closedIntervals(Head(keys), history[Head(keys)])
         \o openInterval(Head(keys), history[Head(keys)], size)
         \o collectIntervals(history, Tail(keys), size)

intervalsOfHistory(history, size) ==
    collectIntervals(history, orderedKeys(DOMAIN history), size)

convertInstance(opi) ==
    [V |-> opi.V, alpha |-> opi.alpha,
     timeframe |-> Len(opi.sequence) + 1,
     intervals |-> intervalsOfHistory(buildHistory(opi.sequence, 0, <<>>),
                                      Len(opi.sequence))]

(***************************************************************************)
(* IntervalDict and the comparators  (src/src/solver.h, solver.cpp)        *)
(* An Interval* is the position of the interval in ipi.intervals.          *)
(***************************************************************************)
TimeBoundsComparator(intA, intB) == IntervalLess(intA, intB)

ScoreComparatorScoreOnly(intA, intB) == intA.score > intB.score

ScoreComparator(intA, intB) ==
    intA.score > intB.score \/
    (intA.score = intB.score /\ IntervalLess(intA, intB))

\* std::set::emplace under TimeBoundsComparator: an equivalent element
\* (neither one before the other) blocks the insertion
dictEmplace(intervals, dict, p) ==
    IF \E i \in DOMAIN dict :
          /\ ~TimeBoundsComparator(intervals[dict[i]], intervals[p])
          /\ ~TimeBoundsComparator(intervals[p], intervals[dict[i]])
    THEN dict
    ELSE LET before == SelectSeq(dict, LAMBDA q :
                           TimeBoundsComparator(intervals[q], intervals[p]))
             after == SelectSeq(dict, LAMBDA q :
                           TimeBoundsComparator(intervals[p], intervals[q]))
         IN  before \o <<p>> \o after

RECURSIVE dictFill(_, _, _)
dictFill(intervals, dict, p) ==
    IF p > Len(intervals) THEN dict
    ELSE dictFill(intervals, dictEmplace(intervals, dict, p), p + 1)

constructIntervalDict(instanceIpi) == dictFill(instanceIpi.intervals, <<>>, 1)

\* *dict.find(&mock); dict.end() is nullptr here
findIntervalWithTimeBounds(intervals, startTime, endTime, dict) ==
    LET mock == [startTime |-> startTime, endTime |-> endTime]
        hits == {i \in DOMAIN dict :
                    /\ ~TimeBoundsComparator(intervals[dict[i]], mock)
                    /\ ~TimeBoundsComparator(mock, intervals[dict[i]])}
    IN  IF hits = {} THEN nullptr ELSE dict[CHOOSE i \in hits : TRUE]

(***************************************************************************)
(* Conversion of operation sequences.                                      *)
(***************************************************************************)
\* converter runs: vertices, forests, commands
ConvMaxV == 3

ConvMaxAlpha == 2

ConvMaxLen == 4

Commands(V) ==
    {Command(operation, nodes) :
        operation \in {INSERT, DELETE},
        nodes \in {e \in (0..(V - 1)) \X (0..(V - 1)) : e[1] < e[2]}}

\* the sequences of L commands that replay on alpha forests over V vertices
RECURSIVE ValidSequences(_, _, _)
ValidSequences(V, alpha, L) ==
    IF L = 0 THEN {<<>>}
    ELSE {s \in {Append(prefix, c) :
                    prefix \in ValidSequences(V, alpha, L - 1),
                    c \in Commands(V)} :
             ValidSequence(V, alpha, s)}

ConvInit ==
    /\ pc = "convert"
    /\ \E v \in 2..ConvMaxV, a \in 1..ConvMaxAlpha, L \in 0..ConvMaxLen :
          /\ sequenceLen = L
          /\ \E sq \in ValidSequences(v, a, L) :
                instance = [V |-> v, alpha |-> a, sequence |-> sq]
    /\ graph = NULL
    /\ purgeCountdown = 0
    /\ time = 0
    /\ ipi = NULL
    /\ solver = NULL
    /\ kowalik = NULL
    /\ unitIdle

\* IntervalProblemInstance ipi = convertInstance(opi)
Convert ==
    /\ pc = "convert"
    /\ ipi' = convertInstance(instance)
    /\ pc' = "converted"
    /\ UNCHANGED <<unitVars, instance, genVars, solver, kowalik>>

SpecConv == ConvInit /\ [][Convert]_vars

(***************************************************************************)
(* Properties of convertInstance.                                          *)
(***************************************************************************)
\* the 0-based position of the first Delete of nodes after position t, or
\* the length of the sequence when there is none
ExpectedEnd(seq, t, nodes) ==
    LET later == {j \in (t + 1)..(Len(seq) - 1) :
                     /\ seq[j + 1].operation = DELETE
                     /\ seq[j + 1].nodes = nodes}
    IN  IF later = {} THEN Len(seq)
        ELSE CHOOSE j \in later : \A o \in later : j <= o

InsertTimes(seq) ==
    {t \in 0..(Len(seq) - 1) : seq[t + 1].operation = INSERT}

\* C5: after convertInstance there are as many intervals as Insert commands;
\* the Insert at position t has an interval that starts at t, ends at the
\* next Delete of the same edge or at L when there is none, carries the
\* edge, has status NOT_SET and score 0; and timeframe is L + 1.
C5_OneIntervalPerInsert ==
    pc = "converted" =>
        /\ ipi.timeframe = Len(instance.sequence) + 1
        /\ Len(ipi.intervals) = Cardinality(InsertTimes(instance.sequence))
        /\ \A t \in InsertTimes(instance.sequence) :
              \E i \in DOMAIN ipi.intervals :
                 ipi.intervals[i] =
                     [startTime |-> t,
                      endTime |-> ExpectedEnd(instance.sequence, t,
                                     instance.sequence[t + 1].nodes),
                      nodes |-> instance.sequence[t + 1].nodes,
                      status |-> NOT_SET, score |-> 0]

\* an edge inserted, deleted and inserted again that stays to the end
C5_Witness ==
    /\ pc = "converted"
    /\ \E i, j \in DOMAIN ipi.intervals :
          /\ ipi.intervals[i].nodes = ipi.intervals[j].nodes
          /\ ipi.intervals[i].endTime < ipi.intervals[j].startTime
          /\ ipi.intervals[j].endTime = Len(instance.sequence)

\* C6: after convertInstance no two intervals at different positions are
\* equal under operator== (same startTime and endTime); operator< is
\* irreflexive, transitive and orders every two different intervals one way
\* only; and the lookup by the time bounds of an interval finds that interval
\* and no other.
C6_TimeBoundsIdentifyInterval ==
    pc = "converted" =>
        LET I == ipi.intervals
        IN  /\ \A i, j \in DOMAIN I : i # j => ~IntervalEq(I[i], I[j])
            /\ \A i \in DOMAIN I : ~IntervalLess(I[i], I[i])
            /\ \A i, j \in DOMAIN I :
                  i # j => (IntervalLess(I[i], I[j]) # IntervalLess(I[j], I[i]))
            /\ \A i, j, k \in DOMAIN I :
                  IntervalLess(I[i], I[j]) /\ IntervalLess(I[j], I[k])
                      => IntervalLess(I[i], I[k])
            /\ \A i \in DOMAIN I :
                  /\ findIntervalWithTimeBounds(I, I[i].startTime,
                         I[i].endTime, constructIntervalDict(ipi)) = i
                  /\ {j \in DOMAIN I : I[j].startTime = I[i].startTime
                                       /\ I[j].endTime = I[i].endTime} = {i}

\* three intervals, two of them with the same endTime and one re-inserted
C6_Witness ==
    /\ pc = "converted"
    /\ Len(ipi.intervals) = 3
    /\ \E i, j \in DOMAIN ipi.intervals :
          /\ i # j
          /\ ipi.intervals[i].endTime = ipi.intervals[j].endTime
    /\ \E i, j \in DOMAIN ipi.intervals :
          /\ i # j
          /\ ipi.intervals[i].nodes = ipi.intervals[j].nodes

ScenarioReuse ==
    [V |-> 3, alpha |-> 1,
     sequence |-> <<Command(INSERT, <<0, 1>>), Command(INSERT, <<0, 2>>),
                    Command(DELETE, <<0, 1>>), Command(INSERT, <<1, 2>>)>>]

TimedEdges(instanceIpi) ==
    {<<instanceIpi.intervals[i].startTime, instanceIpi.intervals[i].endTime,
       instanceIpi.intervals[i].nodes>> : i \in DOMAIN instanceIpi.intervals}

\* C7 as stated: converting [Insert(0,1), Insert(0,2), Delete(0,1),
\* Insert(1,2)] with V=3, alpha=1 gives exactly [0,2]:(0,1), [1,3]:(0,2),
\* [3,3]:(1,2) and timeframe 4.
C7_AsStated ==
    (pc = "converted" /\ instance = ScenarioReuse) =>
        /\ Len(ipi.intervals) = 3
        /\ TimedEdges(ipi) = {<<0, 2, <<0, 1>>>>, <<1, 3, <<0, 2>>>>,
                              <<3, 3, <<1, 2>>>>}
        /\ ipi.timeframe = 4

\* C7: converting [Insert(0,1), Insert(0,2), Delete(0,1), Insert(1,2)] with
\* V=3, alpha=1 gives exactly [0,2]:(0,1), [1,4]:(0,2), [3,4]:(1,2) and
\* timeframe 5: the two edges never deleted end at the sequence length 4.
C7_ScenarioReuseIntervals ==
    (pc = "converted" /\ instance = ScenarioReuse) =>
        /\ Len(ipi.intervals) = 3
        /\ TimedEdges(ipi) = {<<0, 2, <<0, 1>>>>, <<1, 4, <<0, 2>>>>,
                              <<3, 4, <<1, 2>>>>}
        /\ ipi.timeframe = 5

C7_Witness == pc = "converted" /\ instance = ScenarioReuse

(***************************************************************************)
(* IntervalTree  (src/src/interval-tree.cpp)                               *)
(* A node is a record [range, highest, height, left, right].               *)
(***************************************************************************)
IntervalTreeNode(range) ==
    [range |-> range, highest |-> range[2], height |-> 1,
     left |-> NULL, right |-> NULL]

ITgetHighest(node) == IF node = NULL THEN 0 ELSE node.highest

ITgetHeight(node) == IF node = NULL THEN 0 ELSE node.height

\* mutant: highest taken from the node and its left subtree only
ITupdateAuxValuesLeftOnly(node) ==
    [node EXCEPT
        !.height = 1 + max(ITgetHeight(node.left), ITgetHeight(node.right)),
        !.highest = max(node.range[2], ITgetHighest(node.left))]

ITupdateAuxValues(node) ==
    [node EXCEPT
        !.height = 1 + max(ITgetHeight(node.left), ITgetHeight(node.right)),
        !.highest = max(node.range[2],
                        max(ITgetHighest(node.left), ITgetHighest(node.right)))]

ITrotateRight(node) ==
    LET root == node.left
        lowered == ITupdateAuxValues([node EXCEPT !.left = root.right])
    IN  ITupdateAuxValues([root EXCEPT !.right = lowered])

ITrotateLeft(node) ==
    LET root == node.right
        lowered == ITupdateAuxValues([node EXCEPT !.right = root.left])
    IN  ITupdateAuxValues([root EXCEPT !.left = lowered])

ITbalanceTree(root) ==
    LET rootBalance == ITgetHeight(root.left) - ITgetHeight(root.right)
    IN  IF rootBalance = 2
        THEN LET leftChild == root.left
                 leftChildBalance ==
                     ITgetHeight(leftChild.left) - ITgetHeight(leftChild.right)
             IN  IF leftChildBalance < 0
                 THEN ITrotateRight(
                          [root EXCEPT !.left = ITrotateLeft(leftChild)])
                 ELSE ITrotateRight(root)
        ELSE IF rootBalance = -2
        THEN LET rightChild == root.right
                 rightChildBalance ==
                     ITgetHeight(rightChild.left) - ITgetHeight(rightChild.right)
             IN  IF rightChildBalance > 0
                 THEN ITrotateLeft(
                          [root EXCEPT !.right = ITrotateRight(rightChild)])
                 ELSE ITrotateLeft(root)
        ELSE root

RECURSIVE ITgetMinNode(_)
ITgetMinNode(node) ==
    IF node.left = NULL THEN node ELSE ITgetMinNode(node.left)

\* node->range >= addend sends the addend to the left
RECURSIVE ITinsertHelper(_, _)
ITinsertHelper(node, addend) ==
    IF node = NULL THEN IntervalTreeNode(addend)
    ELSE IF ~PairLess(node.range, addend)
         THEN ITbalanceTree(ITupdateAuxValues(
                  [node EXCEPT !.left = ITinsertHelper(node.left, addend)]))
         ELSE ITbalanceTree(ITupdateAuxValues(
                  [node EXCEPT !.right = ITinsertHelper(node.right, addend)]))

RECURSIVE ITdropMinNode(_)
ITdropMinNode(node) ==
    IF node.left = NULL THEN node.right
    ELSE ITbalanceTree(ITupdateAuxValues(
             [node EXCEPT !.left = ITdropMinNode(node.left)]))

\* returns [node |-> the new subtree, hit |-> how often nodeCount-- ran]
RECURSIVE ITremoveHelper(_, _)
ITremoveHelper(node, target) ==
    IF node = NULL THEN [node |-> NULL, hit |-> 0]
    ELSE IF PairLess(target, node.range)
    THEN LET sub == ITremoveHelper(node.left, target)
         IN  [node |-> ITbalanceTree(ITupdateAuxValues(
                           [node EXCEPT !.left = sub.node])),
              hit |-> sub.hit]
    ELSE IF PairLess(node.range, target)
    THEN LET sub == ITremoveHelper(node.right, target)
         IN  [node |-> ITbalanceTree(ITupdateAuxValues(
                           [node EXCEPT !.right = sub.node])),
              hit |-> sub.hit]
    ELSE IF node.left = NULL \/ node.right = NULL
    THEN [node |-> IF node.left = NULL THEN node.right ELSE node.left,
          hit |-> 1]
    ELSE [node |-> ITbalanceTree(ITupdateAuxValues(
                       [ITgetMinNode(node.right) EXCEPT
                           !.right = ITdropMinNode(node.right),
                           !.left = node.left])),
          hit |-> 1]

\* the IntervalTree object: [root, nodeCount]
IntervalTree == [root |-> NULL, nodeCount |-> 0]

ITinsert(tree, low, high) ==
    [root |-> ITinsertHelper(tree.root, <<low, high>>),
     nodeCount |-> tree.nodeCount + 1]

ITremoveFrom(tree, res) ==
    [root |-> res.node, nodeCount |-> tree.nodeCount - res.hit]

ITremove(tree, low, high) ==
    ITremoveFrom(tree, ITremoveHelper(tree.root, <<low, high>>))

areIntervalsClashing(intA, intB) == intA[1] <= intB[2] /\ intB[1] <= intA[2]

\* in-order walk with the two prunings; returns what is appended to result
RECURSIVE collectClashes(_, _)
collectClashes(node, query) ==
    IF node = NULL THEN <<>>
    ELSE IF node.highest < query[1] THEN <<>>
    ELSE collectClashes(node.left, query)
         \o (IF areIntervalsClashing(node.range, query)
             THEN <<node.range>> ELSE <<>>)
         \o (IF node.range[1] <= query[2]
             THEN collectClashes(node.right, query) ELSE <<>>)

getClashes(tree, low, high) == collectClashes(tree.root, <<low, high>>)

countClashes(tree, low, high) == Len(getClashes(tree, low, high))

(***************************************************************************)
(* SegmentTreePlusMax<uint8_t>  (src/src/segment-tree.h, segment-tree.cpp) *)
(* A node is a record [value, lazy, range, left, right].                   *)
(***************************************************************************)
\* number of values of uint8_t, the element type of OutdegManager
ElemTModulus == 256

update(x, y) == (x + y) % ElemTModulus

accumulate(x, y) == max(x, y)

multiAccumulate(times, value) == value

SegmentTreeNode(value, lazy, range) ==
    [value |-> value, lazy |-> lazy, range |-> range,
     left |-> NULL, right |-> NULL]

RECURSIVE rootPower(_, _)
rootPower(p, size) == IF p < size THEN rootPower(p * 2, size) ELSE p

getRootRange(size) == <<0, rootPower(1, size) - 1>>

\* SegmentTreePlusMax(size): neutral is numeric_limits<uint8_t>::min()
SegmentTreePlusMax(size) ==
    [size |-> size, neutral |-> 0,
     root |-> SegmentTreeNode(0, 0, getRootRange(size))]

isLeafNode(node) == node.range[1] = node.range[2]

segmentSize(range) == range[2] - range[1] + 1

contains(segA, segB) == segA[1] <= segB[1] /\ segB[2] <= segA[2]

nonemptyOverlap(segA, segB) ==
    max(segA[1], segB[1]) <= min(segA[2], segB[2])

overlapSize(segA, segB) ==
    min(segA[2], segB[2]) - max(segA[1], segB[1]) + 1

allocateChildrenAt(node, half) ==
    [node EXCEPT
        !.left = SegmentTreeNode(0, 0,
                     <<node.range[1], node.range[1] + half>>),
        !.right = SegmentTreeNode(0, 0,
                     <<node.range[1] + half + 1, node.range[2]>>)]

allocateChildren(node) ==
    IF node.left # NULL /\ node.right # NULL THEN node
    ELSE IF isLeafNode(node) THEN node
    ELSE allocateChildrenAt(node, (node.range[2] - node.range[1]) \div 2)

propagateDownKeepLazy(node) ==
    IF ~isLeafNode(node)
    THEN [node EXCEPT
            !.left.lazy = update(@, node.lazy),
            !.right.lazy = update(@, node.lazy),
            !.left.value = update(@,
                multiAccumulate(segmentSize(node.range) \div 2, node.lazy)),
            !.right.value = update(@,
                multiAccumulate(segmentSize(node.range) \div 2, node.lazy))]
    ELSE node

propagateDown(node) ==
    IF ~isLeafNode(node)
    THEN [node EXCEPT
            !.left.lazy = update(@, node.lazy),
            !.right.lazy = update(@, node.lazy),
            !.left.value = update(@,
                multiAccumulate(segmentSize(node.range) \div 2, node.lazy)),
            !.right.value = update(@,
                multiAccumulate(segmentSize(node.range) \div 2, node.lazy)),
            !.lazy = 0]
    ELSE [node EXCEPT !.lazy = 0]

\* mutant: the value of the node is not taken again from its children
withChildrenStaleValue(node, leftChild, rightChild) ==
    [node EXCEPT !.left = leftChild, !.right = rightChild]

\* node->value = accumulate(node->left->value, node->right->value)
withChildren(node, leftChild, rightChild) ==
    [node EXCEPT !.left = leftChild, !.right = rightChild,
                 !.value = accumulate(leftChild.value, rightChild.value)]

RECURSIVE STinsertHelper(_, _, _)
STinsertBelow(node, query, value) ==
    withChildren(node, STinsertHelper(node.left, query, value),
                       STinsertHelper(node.right, query, value))

STinsertHelper(node, query, value) ==
    IF contains(query, node.range)
    THEN [node EXCEPT
            !.lazy = update(@, value),
            !.value = update(@,
                multiAccumulate(overlapSize(query, node.range), value))]
    ELSE IF nonemptyOverlap(query, node.range)
    THEN STinsertBelow(propagateDown(allocateChildren(node)), query, value)
    ELSE node

\* returns [node |-> the subtree after the query, result |-> the answer]
RECURSIVE queryHelper(_, _, _)
queryJoin(node, leftRes, rightRes) ==
    [node |-> [node EXCEPT !.left = leftRes.node, !.right = rightRes.node],
     result |-> accumulate(leftRes.result, rightRes.result)]

queryBelow(node, query, neutral) ==
    queryJoin(node, queryHelper(node.left, query, neutral),
                    queryHelper(node.right, query, neutral))

queryHelper(node, query, neutral) ==
    IF contains(query, node.range)
    THEN [node |-> node, result |-> node.value]
    ELSE IF nonemptyOverlap(query, node.range)
    THEN queryBelow(propagateDown(allocateChildren(node)), query, neutral)
    ELSE [node |-> node, result |-> neutral]

STinsert(tree, leftBound, rightBound, value) ==
    [tree EXCEPT !.root = STinsertHelper(@, <<leftBound, rightBound>>, value)]

\* returns [tree |-> the tree after the query, result |-> the answer]
STqueryFrom(tree, res) ==
    [tree |-> [tree EXCEPT !.root = res.node], result |-> res.result]

STquery(tree, leftBound, rightBound) ==
    STqueryFrom(tree,
        queryHelper(tree.root, <<leftBound, rightBound>>, tree.neutral))

(***************************************************************************)
(* solveInstance  (src/src/solver.cpp)                                     *)
(* queue is the std::set ordered by ScoreComparator, kept as the sequence  *)
(* of its elements in that order.                                          *)
(***************************************************************************)
buildEmptyIntervalTrees(instanceIpi) ==
    [v \in 0..(instanceIpi.V - 1) |-> IntervalTree]

insertAtBothNodes(intTrees, intv) ==
    [[intTrees EXCEPT ![intv.nodes[1]] =
          ITinsert(@, intv.startTime, intv.endTime)]
        EXCEPT ![intv.nodes[2]] = ITinsert(@, intv.startTime, intv.endTime)]

RECURSIVE fillIntervalTrees(_, _, _)
fillIntervalTrees(intervals, intTrees, p) ==
    IF p > Len(intervals) THEN intTrees
    ELSE fillIntervalTrees(intervals,
             insertAtBothNodes(intTrees, intervals[p]), p + 1)

buildFullIntervalTrees(instanceIpi) ==
    fillIntervalTrees(instanceIpi.intervals,
                      buildEmptyIntervalTrees(instanceIpi), 1)

buildOutdegManager(instanceIpi) ==
    [v \in 0..(instanceIpi.V - 1) |-> SegmentTreePlusMax(instanceIpi.timeframe)]

\* std::set::insert under ScoreComparator
queueInsert(intervals, queue, p) ==
    IF \E i \in DOMAIN queue :
          /\ ~ScoreComparator(intervals[queue[i]], intervals[p])
          /\ ~ScoreComparator(intervals[p], intervals[queue[i]])
    THEN queue
    ELSE SelectSeq(queue, LAMBDA q :
             ScoreComparator(intervals[q], intervals[p]))
         \o <<p>>
         \o SelectSeq(queue, LAMBDA q :
             ScoreComparator(intervals[p], intervals[q]))

\* std::set::erase(key): drops the element equivalent to the key
queueErase(intervals, queue, p) ==
    SelectSeq(queue, LAMBDA q :
        \/ ScoreComparator(intervals[q], intervals[p])
        \/ ScoreComparator(intervals[p], intervals[q]))

RECURSIVE queueFill(_, _, _)
queueFill(intervals, queue, p) ==
    IF p > Len(intervals) THEN queue
    ELSE queueFill(intervals, queueInsert(intervals, queue, p), p + 1)

\* the state built before the while loop; taken lists the intervals in the
\* order in which they were current
solveSetup(instanceIpi, maxOutdegree) ==
    [setIntervals |-> buildEmptyIntervalTrees(instanceIpi),
     notsetIntervals |-> buildFullIntervalTrees(instanceIpi),
     outdeg |-> buildOutdegManager(instanceIpi),
     dict |-> constructIntervalDict(instanceIpi),
     queue |-> queueFill(instanceIpi.intervals, <<>>, 1),
     maxOutdegree |-> maxOutdegree,
     taken |-> <<>>]

\* mutant: tag->score++ on an interval left where it is in the queue
rescoreInPlace(intervals, queue, tag) ==
    [intervals |-> [intervals EXCEPT ![tag].score = @ + 1],
     queue |-> queue]

\* queue.erase(tag); tag->score++; queue.insert(tag)
rescore(intervals, queue, tag) ==
    [intervals |-> [intervals EXCEPT ![tag].score = @ + 1],
     queue |-> queueInsert([intervals EXCEPT ![tag].score = @ + 1],
                           queueErase(intervals, queue, tag), tag)]

\* the for loop over clashesList; iq is [intervals, queue]
RECURSIVE rescoreClashes(_, _, _)
rescoreClashes(iq, dict, clashesList) ==
    IF clashesList = <<>> THEN iq
    ELSE rescoreClashes(
             rescore(iq.intervals, iq.queue,
                 findIntervalWithTimeBounds(iq.intervals,
                     Head(clashesList)[1], Head(clashesList)[2], dict)),
             dict, Tail(clashesList))

chooseStatusAlwaysFirst(fstCollisions, sndCollisions) == FIRST_NODE_SELECTED

\* mutant: an owner choice whose ties go to the second endpoint
chooseStatusTiesToSecond(fstCollisions, sndCollisions) ==
    IF fstCollisions >= sndCollisions THEN SECOND_NODE_SELECTED
    ELSE FIRST_NODE_SELECTED

\* the owner choice of lines 45-46
chooseStatus(fstCollisions, sndCollisions) ==
    IF fstCollisions > sndCollisions THEN SECOND_NODE_SELECTED
    ELSE FIRST_NODE_SELECTED

\* lines 35-38: current leaves the trees of both its nodes
dropCurrent(notsetIntervals, cur) ==
    [[notsetIntervals EXCEPT ![cur.nodes[1]] =
          ITremove(@, cur.startTime, cur.endTime)]
        EXCEPT ![cur.nodes[2]] = ITremove(@, cur.startTime, cur.endTime)]

\* lines 61-71, with everything before them already computed
iterationEnd(sv, current, intervals, notsetIntervals, cur, queried) ==
    LET iq == rescoreClashes(
                  [intervals |-> intervals, queue |-> sv.queue], sv.dict,
                  getClashes(notsetIntervals[getAssignedNode(cur)],
                             cur.startTime, cur.endTime))
    IN  [intervals |-> iq.intervals,
         solver |->
            [setIntervals |->
                 [sv.setIntervals EXCEPT ![getAssignedNode(cur)] =
                     ITinsert(@, cur.startTime, cur.endTime)],
             notsetIntervals |-> notsetIntervals,
             outdeg |->
                 [sv.outdeg EXCEPT ![getAssignedNode(cur)] = queried.tree],
             dict |-> sv.dict,
             queue |-> queueErase(iq.intervals, iq.queue, current),
             maxOutdegree |-> max(queried.result, sv.maxOutdegree),
             taken |-> Append(sv.taken, current)]]

\* lines 49-57 for the interval cur whose status is set
iterationOutdeg(sv, current, intervals, notsetIntervals, cur) ==
    iterationEnd(sv, current, intervals, notsetIntervals, cur,
        STquery(STinsert(sv.outdeg[getAssignedNode(cur)],
                         cur.startTime, cur.endTime, 1),
                cur.startTime, cur.endTime))

\* lines 40-46
iterationAssign(sv, current, intervals, notsetIntervals, status) ==
    iterationOutdeg(sv, current,
        [intervals EXCEPT ![current].status = status], notsetIntervals,
        [intervals[current] EXCEPT !.status = status])

\* one round of the while loop; returns [intervals, solver]
solveIteration(intervals, sv) ==
    iterationAssign(sv, Head(sv.queue), intervals,
        dropCurrent(sv.notsetIntervals, intervals[Head(sv.queue)]),
        chooseStatus(
            countClashes(sv.setIntervals[intervals[Head(sv.queue)].nodes[1]],
                intervals[Head(sv.queue)].startTime,
                intervals[Head(sv.queue)].endTime),
            countClashes(sv.setIntervals[intervals[Head(sv.queue)].nodes[2]],
                intervals[Head(sv.queue)].startTime,
                intervals[Head(sv.queue)].endTime)))

\* int maxOutdegCustomStrategy = 0; the part of solveInstance before the loop
SolveBegin ==
    /\ pc \in {"solve", "converted"}
    /\ solver' = solveSetup(ipi, 0)
    /\ pc' = "solving"
    /\ UNCHANGED <<unitVars, instance, genVars, ipi, kowalik>>

\* one round of the while loop
SolveIterate ==
    /\ pc = "solving"
    /\ solver.queue # <<>>
    /\ LET after == solveIteration(ipi.intervals, solver)
       IN  /\ ipi' = [ipi EXCEPT !.intervals = after.intervals]
           /\ solver' = after.solver
    /\ UNCHANGED <<unitVars, pc, instance, genVars, kowalik>>

\* the queue is empty: solveInstance returns
SolveReturn ==
    /\ pc = "solving"
    /\ solver.queue = <<>>
    /\ pc' = "solved"
    /\ UNCHANGED <<unitVars, instance, genVars, pipeVars>>

(***************************************************************************)
(* solveInstance on interval instances with pairwise distinct time bounds. *)
(***************************************************************************)
\* solver runs: vertices, timeframe, intervals
SolveMaxV == 2

SolveMaxTimeframe == 3

SolveMaxIntervals == 3

FreshIntervals(V, timeframe) ==
    {Interval(bounds[1], bounds[2], nodes) :
        bounds \in {b \in (0..(timeframe - 1)) \X (0..(timeframe - 1)) :
                       b[1] <= b[2]},
        nodes \in {e \in (0..(V - 1)) \X (0..(V - 1)) : e[1] < e[2]}}

\* convertInstance emits the intervals edge by edge in ascending order of the
\* edges and, for one edge, in ascending order of time
EmittedAfter(last, next) ==
    \/ PairLess(last.nodes, next.nodes)
    \/ (last.nodes = next.nodes /\ IntervalLess(last, next))

\* the vectors of N intervals in emission order, no two of which are equal
\* under operator==
RECURSIVE IntervalVectors(_, _, _)
IntervalVectors(V, timeframe, N) ==
    IF N = 0 THEN {<<>>}
    ELSE UNION {{Append(prefix, intv) :
                    intv \in {f \in FreshIntervals(V, timeframe) :
                                 /\ \A i \in DOMAIN prefix :
                                       ~IntervalEq(prefix[i], f)
                                 /\ prefix # <<>> =>
                                       EmittedAfter(prefix[Len(prefix)], f)}} :
                prefix \in IntervalVectors(V, timeframe, N - 1)}

\* alpha is carried by the instance and never read by solveInstance
SolveInit ==
    /\ pc = "solve"
    /\ instance = NULL
    /\ sequenceLen = 0
    /\ graph = NULL
    /\ purgeCountdown = 0
    /\ time = 0
    /\ \E v \in 2..SolveMaxV, timeframe \in 1..SolveMaxTimeframe,
          N \in 0..SolveMaxIntervals :
          \E intervals \in IntervalVectors(v, timeframe, N) :
             ipi = [V |-> v, alpha |-> 1, timeframe |-> timeframe,
                    intervals |-> intervals]
    /\ solver = NULL
    /\ kowalik = NULL
    /\ unitIdle

SolveNext ==
    \/ SolveBegin
    \/ SolveIterate
    \/ SolveReturn

SpecSolve == SolveInit /\ [][SolveNext]_vars

\* solveInstance runs as a sequential program: a step that can be taken is
\* taken, which is weak fairness of each of its three steps.  For SolveBegin
\* and SolveIterate, WF_vars is written with the state predicate that
\* ENABLED <<...>>_vars equals: the set-up can be taken exactly when the
\* routine is entered, and it changes pc; a round can be taken exactly when
\* the loop is reached with a nonempty queue, and it lengthens solver.taken.
BeginEnabled == pc \in {"solve", "converted"}

IterateEnabled == pc = "solving" /\ solver.queue # <<>>

SpecSolveFair ==
    /\ SpecSolve
    /\ []<>(~BeginEnabled) \/ []<><<SolveBegin>>_vars
    /\ []<>(~IterateEnabled) \/ []<><<SolveIterate>>_vars
    /\ WF_vars(SolveReturn)

(***************************************************************************)
(* Properties of solveInstance.                                            *)
(***************************************************************************)
\* the number of intervals owned by v whose span contains t
Load(intervals, v, t) ==
    Cardinality({i \in DOMAIN intervals :
                    /\ intervals[i].status # NOT_SET
                    /\ getAssignedNode(intervals[i]) = v
                    /\ intervals[i].startTime <= t
                    /\ t <= intervals[i].endTime})

PeakLoad(instanceIpi) ==
    LET loads == {Load(instanceIpi.intervals, v, t) :
                     v \in 0..(instanceIpi.V - 1),
                     t \in 0..(instanceIpi.timeframe - 1)}
    IN  CHOOSE m \in loads : \A o \in loads : o <= m

C2_EveryIntervalTakenOnce ==
    /\ <>(pc = "solved")
    /\ [](pc = "solved" =>
            /\ Len(solver.taken) = Len(ipi.intervals)
            /\ \A i \in DOMAIN ipi.intervals :
                  /\ Cardinality({k \in DOMAIN solver.taken :
                                     solver.taken[k] = i}) = 1
                  /\ ipi.intervals[i].status
                         \in {FIRST_NODE_SELECTED, SECOND_NODE_SELECTED})

\* a returned run over three intervals in which scores were raised and both
\* owners were chosen
C2_Witness ==
    /\ pc = "solved"
    /\ Len(solver.taken) = 3
    /\ \E i \in DOMAIN ipi.intervals : ipi.intervals[i].score >= 2
    /\ \E i, j \in DOMAIN ipi.intervals :
          /\ ipi.intervals[i].status = FIRST_NODE_SELECTED
          /\ ipi.intervals[j].status = SECOND_NODE_SELECTED

(***************************************************************************)
(* ForestOrientation  (src/src/graphs.h, graphs.cpp)                       *)
(* directions is the std::set of pairs (from, to).                         *)
(***************************************************************************)
ForestOrientation(V) ==
    [V |-> V, outdegs |-> [v \in 0..(V - 1) |-> 0], directions |-> {},
     revDirections |-> [v \in 0..(V - 1) |-> {}]]

FOgetMaxOutdegree(orientation) ==
    CHOOSE m \in {orientation.outdegs[v] : v \in DOMAIN orientation.outdegs} :
        \A v \in DOMAIN orientation.outdegs : orientation.outdegs[v] <= m

isOriented(orientation, va, vb) == <<va, vb>> \in orientation.directions

FOcontains(orientation, va, vb) ==
    isOriented(orientation, va, vb) \/ isOriented(orientation, vb, va)

\* directions.emplace keeps one copy of a pair already present
orientEdge(orientation, from, to) ==
    [orientation EXCEPT !.outdegs[from] = @ + 1,
                        !.directions = @ \cup {<<from, to>>},
                        !.revDirections[to] = @ \cup {from}]

\* mutant: a removal that leaves the reverse lookup as it was
removeEdgeKeepsReverse(orientation, from, to) ==
    [orientation EXCEPT !.outdegs[from] = @ - 1,
                        !.directions = @ \ {<<from, to>>}]

removeEdge(orientation, from, to) ==
    [orientation EXCEPT !.outdegs[from] = @ - 1,
                        !.directions = @ \ {<<from, to>>},
                        !.revDirections[to] = @ \ {from}]

flipEdge(orientation, from, to) ==
    orientEdge(removeEdge(orientation, from, to), to, from)

\* the elements of a std::set<int> from begin() to end()
RECURSIVE inOrderOf(_)
inOrderOf(S) ==
    IF S = {} THEN <<>>
    ELSE <<CHOOSE x \in S : \A y \in S : x <= y>>
            \o inOrderOf(S \ {CHOOSE x \in S : \A y \in S : x <= y})

getInNeighbours(orientation, v) == inOrderOf(orientation.revDirections[v])

\* the pairs of directions in the order of the std::set
FOgetAllEdges(orientation) == orderedKeys(orientation.directions)

(***************************************************************************)
(* Kowalik's offline strategy  (src/src/strategies.cpp)                    *)
(* graphs and orientations are the two vectors, indexed 0..TIMEFRAME-1.    *)
(***************************************************************************)
\* graphs[t].insertEdge(edge.first, edge.second) for every edge of prevEdges
\* (each insertion is evaluated before the next one is entered)
RECURSIVE copyEdges(_, _)
copyEdges(forest, prevEdges) ==
    IF prevEdges = <<>> THEN forest
    ELSE CHOOSE copied \in
             {copyEdges(inserted, Tail(prevEdges)) :
                 inserted \in {ForestInsertEdge(forest, Head(prevEdges)[1],
                                                Head(prevEdges)[2]).forest}} :
             TRUE

applyCommand(forest, cmd) ==
    IF cmd.operation = INSERT
    THEN ForestInsertEdge(forest, cmd.nodes[1], cmd.nodes[2]).forest
    ELSE ForestDeleteEdge(forest, cmd.nodes[1], cmd.nodes[2])

\* the loop of buildGraphsHistory from time t on
RECURSIVE buildGraphsHistory(_, _, _)
buildGraphsHistory(sequence, graphs, t) ==
    IF t >= Len(sequence) THEN graphs
    ELSE buildGraphsHistory(sequence,
             [graphs EXCEPT ![t] =
                 applyCommand(
                     copyEdges(@, ForestGetAllEdges(graphs[max(0, t - 1)])),
                     sequence[t + 1])],
             t + 1)

\* edges[u].push_back(v); edges[v].push_back(u) for every edge of the forest
RECURSIVE adjacencyLists(_, _)
adjacencyLists(edges, allEdges) ==
    IF allEdges = <<>> THEN edges
    ELSE adjacencyLists(
             [[edges EXCEPT ![Head(allEdges)[1]] = Append(@, Head(allEdges)[2])]
                 EXCEPT ![Head(allEdges)[2]] = Append(@, Head(allEdges)[1])],
             Tail(allEdges))

orientTowardsChild(st, neighbour, v) ==
    [st EXCEPT !.orientation = orientEdge(@, v, neighbour)]

\* orientation.orientEdge(neighbour, v) after the visit of neighbour
orientTowardsRoot(st, neighbour, v) ==
    [st EXCEPT !.orientation = orientEdge(@, neighbour, v)]

\* st is [visited, orientation]
RECURSIVE forestTraversal(_, _, _)
RECURSIVE traverseNeighbours(_, _, _, _)
traverseNeighbours(v, neighbours, edges, st) ==
    IF neighbours = <<>> THEN st
    ELSE IF ~st.visited[Head(neighbours)]
    THEN traverseNeighbours(v, Tail(neighbours), edges,
             orientTowardsRoot(forestTraversal(Head(neighbours), edges, st),
                               Head(neighbours), v))
    ELSE traverseNeighbours(v, Tail(neighbours), edges, st)

forestTraversal(v, edges, st) ==
    traverseNeighbours(v, edges[v], edges, [st EXCEPT !.visited[v] = TRUE])

\* the loop over the roots 0..V-1
RECURSIVE traverseRoots(_, _, _, _)
traverseRoots(root, V, edges, st) ==
    IF root >= V THEN st
    ELSE IF ~st.visited[root]
    THEN traverseRoots(root + 1, V, edges, forestTraversal(root, edges, st))
    ELSE traverseRoots(root + 1, V, edges, st)

constructOptimalOrientation(forest, orientation) ==
    traverseRoots(0, forest.V,
        adjacencyLists([v \in 0..(forest.V - 1) |-> <<>>],
                       ForestGetAllEdges(forest)),
        [visited |-> [v \in 0..(forest.V - 1) |-> FALSE],
         orientation |-> orientation]).orientation

alignAtTimeNoFlip(orientation, from, to) == orientation

\* if (orientations[time].isOriented(to, from)) flipEdge(to, from)
alignAtTime(orientation, from, to) ==
    IF isOriented(orientation, to, from) THEN flipEdge(orientation, to, from)
    ELSE orientation

\* the inner loop of the combine step, from time tm on
RECURSIVE alignTimes(_, _, _, _, _)
alignTimes(orientations, from, to, tm, endTime) ==
    IF tm > endTime THEN orientations
    ELSE alignTimes(
             [orientations EXCEPT ![tm] = alignAtTime(@, from, to)],
             from, to, tm + 1, endTime)

\* the outer loop of the combine step over the edges of orientations[midTime]
RECURSIVE alignEdges(_, _, _, _)
alignEdges(orientations, midEdges, startTime, endTime) ==
    IF midEdges = <<>> THEN orientations
    ELSE alignEdges(
             alignTimes(orientations, Head(midEdges)[1], Head(midEdges)[2],
                        startTime, endTime),
             Tail(midEdges), startTime, endTime)

\* lines 168-177: orient the middle snapshot, then align the others with it
combineHalves(orientations, graphs, startTime, midTime, endTime) ==
    alignEdges(
        [orientations EXCEPT ![midTime] =
            constructOptimalOrientation(graphs[midTime], @)],
        FOgetAllEdges(constructOptimalOrientation(graphs[midTime],
                                                  orientations[midTime])),
        startTime, endTime)

RECURSIVE constructOrientations(_, _, _, _)
constructHalves(orientations, graphs, startTime, midTime, endTime) ==
    combineHalves(
        IF midTime + 1 <= endTime
        THEN constructOrientations(
                 constructOrientations(orientations, graphs,
                                       startTime, midTime - 1),
                 graphs, midTime + 1, endTime)
        ELSE constructOrientations(orientations, graphs,
                                   startTime, midTime - 1),
        graphs, startTime, midTime, endTime)

constructOrientations(orientations, graphs, startTime, endTime) ==
    IF startTime = endTime
    THEN [orientations EXCEPT ![startTime] =
             constructOptimalOrientation(graphs[startTime], @)]
    ELSE constructHalves(orientations, graphs, startTime,
             startTime + ((endTime - startTime + 1) \div 2), endTime)

countFlipsBetween(o1, o2) ==
    Cardinality({edge \in o1.directions : isOriented(o2, edge[2], edge[1])})

\* the loop of countTotalFlips from time tm on, over TIMEFRAME orientations
RECURSIVE countTotalFlipsFrom(_, _, _)
countTotalFlipsFrom(orientations, tm, TIMEFRAME) ==
    IF tm >= TIMEFRAME THEN 0
    ELSE countFlipsBetween(orientations[tm - 1], orientations[tm])
         + countTotalFlipsFrom(orientations, tm + 1, TIMEFRAME)

countTotalFlips(orientations, TIMEFRAME) ==
    countTotalFlipsFrom(orientations, 1, TIMEFRAME)

getMaxOutdegree(orientations) ==
    LET perTime == {FOgetMaxOutdegree(orientations[tm]) :
                       tm \in DOMAIN orientations} \cup {0}
    IN  CHOOSE m \in perTime : \A o \in perTime : o <= m

\* floor(log2(n)) for n >= 1
RECURSIVE floorLog2(_)
floorLog2(n) == IF n < 2 THEN 0 ELSE 1 + floorLog2(n \div 2)

\* lines 110-120 once the two vectors are filled
kowalikResult(graphs, orientations, TIMEFRAME) ==
    [graphs |-> graphs, orientations |-> orientations,
     totalFlips |-> countTotalFlips(orientations, TIMEFRAME),
     maxOutdegree |-> getMaxOutdegree(orientations)]

kowalikOrient(graphs, V, TIMEFRAME) ==
    kowalikResult(graphs,
        constructOrientations(
            [tm \in 0..(TIMEFRAME - 1) |-> ForestOrientation(V)],
            graphs, 0, TIMEFRAME - 1),
        TIMEFRAME)

\* the locals of orientByKowalikStrategy when it reaches its assertions
orientByKowalikStrategy(opi) ==
    kowalikOrient(
        buildGraphsHistory(opi.sequence,
            [tm \in 0..(Len(opi.sequence) - 1) |-> Forest(opi.V)], 0),
        opi.V, Len(opi.sequence))

\* the two assertions of lines 118 and 123
kowalikAssertsOk(result, TIMEFRAME) ==
    /\ result.totalFlips = 0
    /\ result.maxOutdegree <= floorLog2(TIMEFRAME) + 1

(***************************************************************************)
(* One attempt of main  (src/src/main.cpp): the generated instance is      *)
(* converted, then oriented by Kowalik's strategy, which reads opi only,   *)
(* and solved, which reads and writes ipi only.  The two continuations of  *)
(* the conversion are followed one at a time.                              *)
(***************************************************************************)
\* upper bound for arboricity in main
ALPHA == 1

\* runs of Kowalik's strategy: vertices, commands
KowMaxV == 4

KowMaxLen == 4

\* runs of the conversion followed by the solver: vertices, commands
AmcMaxV == 4

AmcMaxLen == 4

\* the state of main when generateInstance has returned a sequence of at
\* least one and at most maxLen commands over at most maxV vertices
AttemptInit(maxV, maxLen) ==
    /\ pc = "convert"
    /\ \E v \in 2..maxV, L \in 1..maxLen :
          /\ sequenceLen = L
          /\ \E sq \in ValidSequences(v, ALPHA, L) :
                instance = [V |-> v, alpha |-> ALPHA, sequence |-> sq]
    /\ graph = NULL
    /\ purgeCountdown = 0
    /\ time = 0
    /\ ipi = NULL
    /\ solver = NULL
    /\ kowalik = NULL
    /\ unitIdle

KowInit == AttemptInit(KowMaxV, KowMaxLen)

AmcInit == AttemptInit(AmcMaxV, AmcMaxLen)

\* avgKowalik += orientByKowalikStrategy(opi); a failed assertion aborts
Kowalik ==
    /\ pc = "converted"
    /\ instance.alpha = 1
    /\ kowalik' = orientByKowalikStrategy(instance)
    /\ pc' = IF kowalikAssertsOk(kowalik', Len(instance.sequence))
             THEN "oriented" ELSE "aborted"
    /\ UNCHANGED <<unitVars, instance, genVars, ipi, solver>>

KowNext ==
    \/ Convert
    \/ Kowalik

SpecKowalik == KowInit /\ [][KowNext]_vars

AmcNext ==
    \/ Convert
    \/ SolveBegin
    \/ SolveIterate
    \/ SolveReturn

SpecAmc == AmcInit /\ [][AmcNext]_vars

(***************************************************************************)
(* Properties of one attempt of main.                                      *)
(***************************************************************************)
ScenarioPath ==
    [V |-> 4, alpha |-> 1,
     sequence |-> <<Command(INSERT, <<0, 1>>), Command(INSERT, <<1, 2>>),
                    Command(INSERT, <<2, 3>>), Command(DELETE, <<1, 2>>)>>]

ScenarioSingle ==
    [V |-> 2, alpha |-> 1, sequence |-> <<Command(INSERT, <<0, 1>>)>>]

\* C8: when convertInstance and then solveInstance (entered with
\* maxOutdegree = 0) have run on [Insert(0,1), Insert(1,2), Insert(2,3),
\* Delete(1,2)] with V=4, on [Insert(0,1), Insert(0,2), Delete(0,1),
\* Insert(1,2)] with V=3, or on [Insert(0,1)] with V=2, maxOutdegree is 1.
C8_ScenarioPeakIsOne ==
    (pc = "solved" /\ instance \in {ScenarioPath, ScenarioReuse, ScenarioSingle})
        => solver.maxOutdegree = 1

\* the scenario in which the second interval has to avoid the owner of the
\* first: [0,2]:(0,1) goes to vertex 0 and [1,4]:(0,2) to vertex 2
C8_Witness ==
    /\ pc = "solved"
    /\ instance = ScenarioReuse
    /\ \E i \in DOMAIN ipi.intervals :
          /\ ipi.intervals[i].nodes = <<0, 2>>
          /\ ipi.intervals[i].status = SECOND_NODE_SELECTED
          /\ ipi.intervals[i].score = 1

\* the undirected edges of an orientation
Undirected(orientation) ==
    {canon(edge[1], edge[2]) : edge \in orientation.directions}

\* C9: after orientByKowalikStrategy has built the orientations of a valid
\* alpha=1 sequence of length L >= 1, every orientation has the edges of its
\* snapshot, every edge present in the snapshots t-1 and t has the same
\* direction in orientations[t-1] and orientations[t], and countTotalFlips
\* is 0, so that the assertion on it holds.
C9_KowalikZeroFlips ==
    kowalik # NULL =>
        /\ kowalik.totalFlips = 0
        /\ pc # "aborted"
        /\ \A t \in DOMAIN kowalik.orientations :
              Undirected(kowalik.orientations[t]) =
                  Range(ForestGetAllEdges(kowalik.graphs[t]))
        /\ \A t \in DOMAIN kowalik.orientations \ {0} :
              \A edge \in kowalik.orientations[t - 1].directions :
                 canon(edge[1], edge[2]) \in Undirected(kowalik.orientations[t])
                     => edge \in kowalik.orientations[t].directions

\* a snapshot whose final orientation is not the one its own traversal
\* gives: an edge of it was turned to agree with a middle snapshot
C9_Witness ==
    /\ kowalik # NULL
    /\ \E t \in DOMAIN kowalik.orientations :
          kowalik.orientations[t].directions #
              constructOptimalOrientation(kowalik.graphs[t],
                  ForestOrientation(instance.V)).directions

\* the number of edges directed away from v
OutDegree(orientation, v) ==
    Cardinality({edge \in orientation.directions : edge[1] = v})

\* C10: the value orientByKowalikStrategy computes for a valid alpha=1
\* sequence of length L >= 1 is the largest out-degree of a vertex in any of
\* the orientations, and it is at most floor(log2 L) + 1, so that the
\* assertion on it holds.
C10_KowalikOutdegreeBound ==
    kowalik # NULL =>
        /\ kowalik.maxOutdegree <= floorLog2(Len(instance.sequence)) + 1
        /\ pc # "aborted"
        /\ \A t \in DOMAIN kowalik.orientations :
              \A v \in 0..(instance.V - 1) :
                 /\ OutDegree(kowalik.orientations[t], v) <= kowalik.maxOutdegree
                 /\ OutDegree(kowalik.orientations[t], v) =
                        kowalik.orientations[t].outdegs[v]
        /\ \E t \in DOMAIN kowalik.orientations :
              \E v \in 0..(instance.V - 1) :
                 OutDegree(kowalik.orientations[t], v) = kowalik.maxOutdegree

\* three commands and a vertex with two outgoing edges: the bound is attained
C10_Witness ==
    /\ kowalik # NULL
    /\ Len(instance.sequence) = 3
    /\ kowalik.maxOutdegree = 2

(***************************************************************************)
(* AVLTree seen from a caller  (src/src/avl-tree.cpp): the public calls    *)
(* with their outcomes, a thrown exception being an outcome.               *)
(***************************************************************************)
domain_error == [thrown |-> "domain_error"]

returned(value) == [value |-> value]

RECURSIVE getMaxNode(_)
getMaxNode(node) ==
    IF node.right = NULL THEN node ELSE getMaxNode(node.right)

\* mutant: getMin without the test for the empty tree
getMinUnguarded(tree) ==
    returned(IF tree.root = NULL THEN NULL ELSE getMinNode(tree.root).key)

getMin(tree) ==
    IF tree.root = NULL THEN domain_error
    ELSE returned(getMinNode(tree.root).key)

getMax(tree) ==
    IF tree.root = NULL THEN domain_error
    ELSE returned(getMaxNode(tree.root).key)

getNth(tree, n) ==
    IF tree.nodeCount <= n THEN domain_error
    ELSE returned(searchNth(tree.root, n).key)

\* whether every assert (abs(rootBalance) <= 2) met by insertHelper holds
RECURSIVE insertAssertsOk(_, _)
insertAssertsOk(node, key) ==
    IF node = NULL THEN TRUE
    ELSE IF ~PairLess(node.key, key)
         THEN /\ insertAssertsOk(node.left, key)
              /\ balanceAssertOk(updateAuxValues(
                     [node EXCEPT !.left = insertHelper(node.left, key)]))
         ELSE /\ insertAssertsOk(node.right, key)
              /\ balanceAssertOk(updateAuxValues(
                     [node EXCEPT !.right = insertHelper(node.right, key)]))

RECURSIVE dropMinAssertsOk(_)
dropMinAssertsOk(node) ==
    IF node.left = NULL THEN TRUE
    ELSE /\ dropMinAssertsOk(node.left)
         /\ balanceAssertOk(updateAuxValues(
                [node EXCEPT !.left = dropMinNode(node.left)]))

\* the asserts of removeHelper when the target node has both children
removeTargetAssertsOk(node) ==
    /\ dropMinAssertsOk(node.right)
    /\ balanceAssertOk(updateAuxValues(
           [getMinNode(node.right) EXCEPT
               !.right = dropMinNode(node.right), !.left = node.left]))

RECURSIVE removeAssertsOk(_, _)
removeAssertsOk(node, key) ==
    IF node = NULL THEN TRUE
    ELSE IF PairLess(key, node.key)
    THEN /\ removeAssertsOk(node.left, key)
         /\ balanceAssertOk(updateAuxValues(
                [node EXCEPT !.left = removeHelper(node.left, key).node]))
    ELSE IF PairLess(node.key, key)
    THEN /\ removeAssertsOk(node.right, key)
         /\ balanceAssertOk(updateAuxValues(
                [node EXCEPT !.right = removeHelper(node.right, key).node]))
    ELSE (node.left = NULL \/ node.right = NULL) \/ removeTargetAssertsOk(node)


(***************************************************************************)
(* A caller of one AVLTree<pair<int,int>>: any insert, remove, getNth,     *)
(* getMin, getMax and collectKeys in any order, or the scripted calls      *)
(* insert 5, 3, 8, 3, 1, 9, 7 and remove 3 (a number k standing for the    *)
(* pair (0,k)) with queries in between.                                    *)
(***************************************************************************)
\* free calls: keys are the pairs over 0..AvlMaxKey, at most AvlMaxNodes nodes
AvlMaxKey == 1

AvlMaxNodes == 4

AvlKeys == (0..AvlMaxKey) \X (0..AvlMaxKey)

call(name, key) == [call |-> name, key |-> key]

ScenarioCalls ==
    <<call("insert", <<0, 5>>), call("insert", <<0, 3>>),
      call("insert", <<0, 8>>), call("insert", <<0, 3>>),
      call("insert", <<0, 1>>), call("insert", <<0, 9>>),
      call("insert", <<0, 7>>), call("remove", <<0, 3>>)>>

\* script is NULL for a caller that is free, else [calls, next]
scripted == script # NULL

callAllowed(name, key) ==
    IF scripted
    THEN /\ script.next <= Len(script.calls)
         /\ script.calls[script.next] = call(name, key)
    ELSE /\ key \in AvlKeys
         /\ name = "insert" => avl.nodeCount < AvlMaxNodes

scriptAdvance ==
    script' = IF scripted THEN [script EXCEPT !.next = @ + 1] ELSE script

AvlInit ==
    /\ pc = "avl"
    /\ avl = AVLTree
    /\ script \in {NULL, [calls |-> ScenarioCalls, next |-> 1]}
    /\ ret = NULL
    /\ brodal = NULL
    /\ links = NULL
    /\ linked = NULL
    /\ forestObj = NULL
    /\ unit = NULL
    /\ reference = NULL
    /\ instance = NULL
    /\ sequenceLen = 0
    /\ graph = NULL
    /\ purgeCountdown = 0
    /\ time = 0
    /\ ipi = NULL
    /\ solver = NULL
    /\ kowalik = NULL

avlRest == <<instance, genVars, pipeVars, brodal, links, linked, forestObj, unit,
            reference>>

AvlInsert ==
    /\ pc = "avl"
    /\ \E key \in AvlKeys \cup {c.key : c \in Range(ScenarioCalls)} :
          /\ callAllowed("insert", key)
          /\ avl' = AVLinsert(avl, key)
          /\ pc' = IF insertAssertsOk(avl.root, key) THEN "avl" ELSE "aborted"
          /\ ret' = call("insert", key)
    /\ scriptAdvance
    /\ UNCHANGED avlRest

AvlRemove ==
    /\ pc = "avl"
    /\ \E key \in AvlKeys \cup {c.key : c \in Range(ScenarioCalls)} :
          /\ callAllowed("remove", key)
          /\ avl' = AVLremove(avl, key)
          /\ pc' = IF removeAssertsOk(avl.root, key) THEN "avl" ELSE "aborted"
          /\ ret' = call("remove", key)
    /\ scriptAdvance
    /\ UNCHANGED avlRest

AvlGetNth ==
    /\ pc = "avl"
    /\ \E n \in 0..(avl.nodeCount + 1) :
          ret' = [call |-> "getNth", n |-> n, outcome |-> getNth(avl, n)]
    /\ UNCHANGED <<pc, avl, script, avlRest>>

AvlGetMin ==
    /\ pc = "avl"
    /\ ret' = [call |-> "getMin", outcome |-> getMin(avl)]
    /\ UNCHANGED <<pc, avl, script, avlRest>>

AvlGetMax ==
    /\ pc = "avl"
    /\ ret' = [call |-> "getMax", outcome |-> getMax(avl)]
    /\ UNCHANGED <<pc, avl, script, avlRest>>

AvlCollectKeys ==
    /\ pc = "avl"
    /\ ret' = [call |-> "collectKeys", outcome |-> returned(collectKeys(avl))]
    /\ UNCHANGED <<pc, avl, script, avlRest>>

AvlNext ==
    \/ AvlInsert
    \/ AvlRemove
    \/ AvlGetNth
    \/ AvlGetMin
    \/ AvlGetMax
    \/ AvlCollectKeys

SpecAvl == AvlInit /\ [][AvlNext]_vars


(***************************************************************************)
(* Properties of the AVLTree calls.                                        *)
(***************************************************************************)
\* the number of nodes on the longest path from node to a leaf
RECURSIVE pathHeight(_)
pathHeight(node) ==
    IF node = NULL THEN 0
    ELSE 1 + max(pathHeight(node.left), pathHeight(node.right))

\* the number of nodes below and including node
RECURSIVE subtreeSize(_)
subtreeSize(node) ==
    IF node = NULL THEN 0
    ELSE 1 + subtreeSize(node.left) + subtreeSize(node.right)

RECURSIVE AvlShapeOk(_)
AvlShapeOk(node) ==
    \/ node = NULL
    \/ /\ pathHeight(node.left) - pathHeight(node.right) \in {-1, 0, 1}
       /\ node.height = pathHeight(node)
       /\ node.count = 1 + getCount(node.left) + getCount(node.right)
       /\ node.count = subtreeSize(node)
       /\ AvlShapeOk(node.left)
       /\ AvlShapeOk(node.right)

\* C17: after any sequence of insert and remove calls, duplicates and absent
\* keys included, no assertion of balanceTree has failed, the two subtrees
\* of every node differ in height by at most 1, every count is
\* 1 + count(left) + count(right), and nodeCount is the number of nodes.
C17_AvlStructure ==
    pc \in {"avl", "aborted"} =>
        /\ pc # "aborted"
        /\ AvlShapeOk(avl.root)
        /\ avl.nodeCount = subtreeSize(avl.root)

\* a removal that took the successor of a node with two children out of a
\* right subtree of height 3, and one of a key that is not stored
C17_Witness ==
    /\ pc = "avl"
    /\ \/ /\ ret = call("remove", <<0, 3>>)
          /\ avl.nodeCount = 6
          /\ getHeight(avl.root) = 3
       \/ /\ ret # NULL
          /\ ret.call = "remove"
          /\ avl.nodeCount = AvlMaxNodes
          /\ ~AVLcontains(avl, ret.key)
          /\ \E n \in 0..(avl.nodeCount - 2) :
                getNth(avl, n) = getNth(avl, n + 1)


\* the keys below node from left to right
RECURSIVE InOrder(_)
InOrder(node) ==
    IF node = NULL THEN <<>>
    ELSE InOrder(node.left) \o <<node.key>> \o InOrder(node.right)

NonDecreasing(keys) ==
    \A i \in 1..(Len(keys) - 1) : ~PairLess(keys[i + 1], keys[i])

\* a non-decreasing sequence with one more occurrence of key
RECURSIVE WithOneMore(_, _)
WithOneMore(keys, key) ==
    IF keys = <<>> \/ ~PairLess(Head(keys), key) THEN <<key>> \o keys
    ELSE <<Head(keys)>> \o WithOneMore(Tail(keys), key)

\* a sequence with one occurrence of key less, if there is any
RECURSIVE WithOneLess(_, _)
WithOneLess(keys, key) ==
    IF keys = <<>> THEN <<>>
    ELSE IF Head(keys) = key THEN Tail(keys)
    ELSE <<Head(keys)>> \o WithOneLess(Tail(keys), key)

\* getNth(0), ..., getNth(nodeCount - 1)
AllNth(tree) == [i \in 1..tree.nodeCount |-> getNth(tree, i - 1)]

Embedded(numbers) == [i \in DOMAIN numbers |-> returned(<<0, numbers[i]>>)]

SelectsInOrder ==
    /\ NonDecreasing(InOrder(avl.root))
    /\ AllNth(avl) = [i \in 1..avl.nodeCount |-> returned(InOrder(avl.root)[i])]
    /\ (scripted /\ script.next = 8) =>
           AllNth(avl) = Embedded(<<1, 3, 3, 5, 7, 8, 9>>)
    /\ (scripted /\ script.next = 9) =>
           AllNth(avl) = Embedded(<<1, 3, 5, 7, 8, 9>>)

InsertAddsOne ==
    ret'.call = "insert" =>
        InOrder(avl'.root) = WithOneMore(InOrder(avl.root), ret'.key)

RemoveTakesOne ==
    ret'.call = "remove" =>
        InOrder(avl'.root) = WithOneLess(InOrder(avl.root), ret'.key)

\* C18: the stored keys read from left to right are in non-decreasing order,
\* getNth(i) returns the i-th of them for every i < nodeCount, insert adds
\* one occurrence of its key and remove takes away one occurrence of its key
\* if there is one and nothing otherwise; after inserting 5,3,8,3,1,9,7 the
\* answers are 1,3,3,5,7,8,9 and after remove(3) they are 1,3,5,7,8,9.
C18_AvlRankSelect ==
    /\ [](pc = "avl" => SelectsInOrder)
    /\ [][pc = "avl" => (InsertAddsOne /\ RemoveTakesOne)]_vars

\* the scripted run after remove(3): one of the two 3s is gone
C18_Witness ==
    /\ pc = "avl"
    /\ scripted
    /\ script.next = 9
    /\ ret = [call |-> "getNth", n |-> 1, outcome |-> returned(<<0, 3>>)]


\* C19: whenever collectKeys has returned, its result is the in-order
\* traversal of the tree, that is, all stored keys in non-decreasing order.
C19_CollectKeysInOrder ==
    (pc = "avl" /\ ret # NULL /\ ret.call = "collectKeys") =>
        /\ ret.outcome = returned(InOrder(avl.root))
        /\ NonDecreasing(ret.outcome.value)

\* C20: getMin and getMax on an empty tree and getNth(n) with
\* n >= nodeCount end in domain_error, every other such call returns a
\* stored key, and no getMin, getMax or getNth call changes the tree.
C20_AvlDomainErrors ==
    /\ [](pc = "avl" =>
            /\ getMin(avl) = domain_error <=> avl.nodeCount = 0
            /\ getMax(avl) = domain_error <=> avl.nodeCount = 0
            /\ \A n \in 0..(avl.nodeCount + 1) :
                  getNth(avl, n) = domain_error <=> n >= avl.nodeCount
            /\ (ret # NULL /\ ret.call \in {"getMin", "getMax"}) =>
                  ret.outcome = IF avl.nodeCount = 0 THEN domain_error
                                ELSE returned(
                                    IF ret.call = "getMin"
                                    THEN InOrder(avl.root)[1]
                                    ELSE InOrder(avl.root)[avl.nodeCount]))
    /\ [][(pc = "avl" /\ ret'.call \in {"getMin", "getMax", "getNth"}) =>
          avl' = avl]_vars

\* getNth(0) has failed on a tree that holds no key
C20_Witness ==
    /\ pc = "avl"
    /\ avl.nodeCount = 0
    /\ ret = [call |-> "getNth", n |-> 0, outcome |-> domain_error]


(***************************************************************************)
(* A caller of one LinkCutTrees object  (src/src/link-cut-tree.cpp): it    *)
(* links two vertices of different trees, cuts an edge it has linked, and  *)
(* asks connected about any two vertices.                                  *)
(***************************************************************************)
LctMaxV == 3

\* the generator, the pipeline and Brodal's strategy are not running
mainIdle ==
    /\ instance = NULL
    /\ sequenceLen = 0
    /\ graph = NULL
    /\ purgeCountdown = 0
    /\ time = 0
    /\ ipi = NULL
    /\ solver = NULL
    /\ kowalik = NULL
    /\ brodal = NULL

LctInit ==
    /\ pc = "lct"
    /\ \E V \in 2..LctMaxV : links = LinkCutTrees(V)
    /\ linked = {}
    /\ ret = NULL
    /\ avl = NULL
    /\ script = NULL
    /\ forestObj = NULL
    /\ unit = NULL
    /\ reference = NULL
    /\ mainIdle

\* the vertices 0..V-1 of LinkCutTrees(V), whose vector has V+1 nodes
LctVertices == {x \in DOMAIN links : x + 1 \in DOMAIN links}

lctRest == <<pc, instance, genVars, pipeVars, brodal, avl, script, forestObj,
            unit, reference>>

LctLink ==
    /\ pc = "lct"
    /\ \E u \in LctVertices, v \in LctVertices :
          /\ ~RefConnected(linked, u, v)
          /\ links' = link(links, u, v)
          /\ linked' = linked \cup {canon(u, v)}
          /\ ret' = [call |-> "link", u |-> u, v |-> v]
    /\ UNCHANGED lctRest

LctCut ==
    /\ pc = "lct"
    /\ \E u \in LctVertices, v \in LctVertices :
          /\ canon(u, v) \in linked
          /\ links' = cut(links, u, v)
          /\ linked' = linked \ {canon(u, v)}
          /\ ret' = [call |-> "cut", u |-> u, v |-> v]
    /\ UNCHANGED lctRest

LctConnected ==
    /\ pc = "lct"
    /\ \E u \in LctVertices, v \in LctVertices :
          /\ links' = connected(links, u, v).nodes
          /\ ret' = [call |-> "connected", u |-> u, v |-> v,
                     result |-> connected(links, u, v).result]
    /\ UNCHANGED <<linked, lctRest>>

LctNext ==
    \/ LctLink
    \/ LctCut
    \/ LctConnected

SpecLct == LctInit /\ [][LctNext]_vars

(***************************************************************************)
(* Properties of the LinkCutTrees calls.                                   *)
(***************************************************************************)
\* C15: every answer connected(u,v) with u # v, asked after any valid links
\* and cuts and any earlier questions, and the answer the object would give
\* now, is true exactly when u and v are joined by linked edges.
C15_ConnectedIsReachability ==
    pc = "lct" =>
        /\ \A u \in LctVertices, v \in LctVertices :
              u # v => connected(links, u, v).result
                           = RefConnected(linked, u, v)
        /\ (ret # NULL /\ ret.call = "connected" /\ ret.u # ret.v) =>
              ret.result = RefConnected(linked, ret.u, ret.v)

\* a true answer for two vertices that are joined only through a third one
C15_Witness ==
    /\ pc = "lct"
    /\ ret # NULL
    /\ ret.call = "connected"
    /\ ret.result
    /\ canon(ret.u, ret.v) \notin linked
    /\ Cardinality(linked) = 2

\* C16: every answer connected(u,u) is true.
C16_ConnectedReflexive ==
    (pc = "lct" /\ ret # NULL /\ ret.call = "connected" /\ ret.u = ret.v) =>
        ret.result


(***************************************************************************)
(* A caller of one Forest  (src/src/graphs.cpp): insertEdge and deleteEdge *)
(* with any two vertices, in any order.                                    *)
(***************************************************************************)
ForestMaxV == 3

ForestInit ==
    /\ pc = "forest"
    /\ \E V \in 2..ForestMaxV : forestObj = Forest(V)
    /\ unit = NULL
    /\ reference = NULL
    /\ ret = NULL
    /\ avl = NULL
    /\ script = NULL
    /\ links = NULL
    /\ linked = NULL
    /\ mainIdle

forestRest ==
    <<pc, instance, genVars, pipeVars, brodal, avl, script, links, linked,
      unit, reference>>

ForestInsert ==
    /\ pc = "forest"
    /\ \E va \in 0..(forestObj.V - 1), vb \in 0..(forestObj.V - 1) :
          /\ forestObj' = ForestInsertEdge(forestObj, va, vb).forest
          /\ ret' = [call |-> "insertEdge", va |-> va, vb |-> vb,
                     result |-> ForestInsertEdge(forestObj, va, vb).ok]
    /\ UNCHANGED forestRest

ForestDelete ==
    /\ pc = "forest"
    /\ \E va \in 0..(forestObj.V - 1), vb \in 0..(forestObj.V - 1) :
          /\ forestObj' = ForestDeleteEdge(forestObj, va, vb)
          /\ ret' = [call |-> "deleteEdge", va |-> va, vb |-> vb]
    /\ UNCHANGED forestRest

ForestNext ==
    \/ ForestInsert
    \/ ForestDelete

SpecForest == ForestInit /\ [][ForestNext]_vars

(***************************************************************************)
(* Properties of the Forest calls.                                         *)
(***************************************************************************)
\* the stored edges from left to right, and as a set
StoredEdges(f) == InOrder(f.edges.root)

EdgeSet(f) == Range(StoredEdges(f))

\* no edge of E joins two vertices that the other edges of E already join
Acyclic(E) == \A e \in E : ~RefConnected(E \ {e}, e[1], e[2])

\* insertEdge(va, vb) may add the edge to f
Insertable(f, va, vb) ==
    /\ va # vb
    /\ canon(va, vb) \notin EdgeSet(f)
    /\ ~RefConnected(EdgeSet(f), va, vb)

InsertEdgeContract ==
    ret'.call = "insertEdge" =>
        /\ ret'.result <=> Insertable(forestObj, ret'.va, ret'.vb)
        /\ ret'.result =>
              /\ StoredEdges(forestObj') =
                     WithOneMore(StoredEdges(forestObj), canon(ret'.va, ret'.vb))
              /\ forestObj'.edgeCount = forestObj.edgeCount + 1
        /\ ~ret'.result =>
              /\ StoredEdges(forestObj') = StoredEdges(forestObj)
              /\ forestObj'.edgeCount = forestObj.edgeCount

\* C13: after any insertEdge and deleteEdge calls the stored edges are
\* canonical, distinct and acyclic and edgeCount is their number;
\* insertEdge(va,vb) returns true, adding the edge, exactly when va # vb,
\* the canonical edge is not stored and va and vb are in different trees,
\* and when it returns false the stored edges and edgeCount are unchanged.
C13_ForestAcyclic ==
    /\ [](pc = "forest" =>
            /\ Acyclic(EdgeSet(forestObj))
            /\ \A e \in EdgeSet(forestObj) : e[1] < e[2]
            /\ Cardinality(EdgeSet(forestObj)) = Len(StoredEdges(forestObj))
            /\ forestObj.edgeCount = Len(StoredEdges(forestObj))
            /\ forestObj.edges.nodeCount = forestObj.edgeCount)
    /\ [][pc = "forest" => InsertEdgeContract]_vars

\* insertEdge has refused the edge that would close a triangle
C13_Witness ==
    /\ pc = "forest"
    /\ ret # NULL
    /\ ret.call = "insertEdge"
    /\ ~ret.result
    /\ ret.va # ret.vb
    /\ canon(ret.va, ret.vb) \notin EdgeSet(forestObj)
    /\ forestObj.edgeCount = 2


(***************************************************************************)
(* A caller of one BoundedArbGraph  (src/src/graphs.cpp): insertEdge with  *)
(* any forest index and any two vertices, deleteEdge with any two          *)
(* vertices, in any order.                                                 *)
(***************************************************************************)
GraphMaxV == 3

GraphMaxAlpha == 2

\* the caller makes at most GraphMaxCalls calls
GraphMaxCalls == 5

\* how many calls the caller has made: the record of a call carries its
\* ordinal, not its arguments
callsMade == IF ret = NULL THEN 0 ELSE ret.nth

GraphInit ==
    /\ pc = "graph"
    /\ \E V \in 2..GraphMaxV, alpha \in 1..GraphMaxAlpha :
          graph = BoundedArbGraph(V, alpha)
    /\ instance = NULL
    /\ sequenceLen = 0
    /\ purgeCountdown = 0
    /\ time = 0
    /\ ipi = NULL
    /\ solver = NULL
    /\ kowalik = NULL
    /\ unitIdle

graphRest ==
    <<pc, instance, sequenceLen, purgeCountdown, time, pipeVars, brodal, avl,
      script, links, linked, forestObj, unit, reference>>

GraphInsert ==
    /\ pc = "graph"
    /\ callsMade < GraphMaxCalls
    /\ \E forestIndex \in 0..(Len(graph) - 1),
          va \in 0..(graph[1].V - 1), vb \in 0..(graph[1].V - 1) :
          /\ graph' = GraphInsertEdge(graph, forestIndex, va, vb).graph
          /\ ret' = [call |-> "insertEdge", nth |-> callsMade + 1,
                     result |-> GraphInsertEdge(graph, forestIndex, va, vb).ok]
    /\ UNCHANGED graphRest

GraphDelete ==
    /\ pc = "graph"
    /\ callsMade < GraphMaxCalls
    /\ \E va \in 0..(graph[1].V - 1), vb \in 0..(graph[1].V - 1) :
          /\ graph' = GraphDeleteEdge(graph, va, vb)
          /\ ret' = [call |-> "deleteEdge", nth |-> callsMade + 1]
    /\ UNCHANGED graphRest

GraphNext ==
    \/ GraphInsert
    \/ GraphDelete

SpecGraph == GraphInit /\ [][GraphNext]_vars

(***************************************************************************)
(* Properties of the BoundedArbGraph calls.                                *)
(***************************************************************************)
\* C14: after any insertEdge and deleteEdge calls every stored edge is
\* canonical and stored once, in one forest only; getEdgeCount() is the
\* number of distinct edges of the graph; each forest holds at most V-1
\* edges.
C14_EdgeInOneForest ==
    pc = "graph" =>
        /\ \A i \in DOMAIN graph, j \in DOMAIN graph :
              i # j => EdgeSet(graph[i]) \cap EdgeSet(graph[j]) = {}
        /\ \A i \in DOMAIN graph :
              /\ Len(StoredEdges(graph[i])) = Cardinality(EdgeSet(graph[i]))
              /\ graph[i].edgeCount = Cardinality(EdgeSet(graph[i]))
              /\ graph[i].edgeCount <= graph[i].V - 1
              /\ \A e \in EdgeSet(graph[i]) : e[1] < e[2]
        /\ getEdgeCount(graph) =
               Cardinality(UNION {EdgeSet(graph[i]) : i \in DOMAIN graph})

\* an insertEdge call was refused while one forest held V-1 = 2 edges and
\* another forest the third edge of the triangle
C14_Witness ==
    /\ pc = "graph"
    /\ ret # NULL
    /\ ret.call = "insertEdge"
    /\ ~ret.result
    /\ graph[1].V = 3
    /\ getEdgeCount(graph) = 3
    /\ \E i \in DOMAIN graph : graph[i].edgeCount = 2


(***************************************************************************)
(* Brodal and Fagerberg's strategy  (src/src/strategies.cpp)               *)
(***************************************************************************)
getOutdegree(orientation, v) == orientation.outdegs[v]

\* the pairs of directions from lower_bound (v,0) up to upper_bound (v+1,-1)
outRange(orientation, v) ==
    {p \in orientation.directions :
        ~PairLess(p, <<v, 0>>) /\ ~PairLess(<<v + 1, -1>>, p)}

secondsOf(pairs) == [i \in DOMAIN pairs |-> pairs[i][2]]

getOutNeighbours(orientation, v) == secondsOf(orderedKeys(outRange(orientation, v)))

\* the least k with base^k >= n, from k on
RECURSIVE ceilLogFrom(_, _, _, _)
ceilLogFrom(n, base, k, power) ==
    IF power >= n THEN k ELSE ceilLogFrom(n, base, k + 1, power * base)

\* ceil(log2(V) / log2(outdegBound)): the quotient of doubles rounds up to
\* the least k with outdegBound^k >= V for every V below 243 (V = 243,
\* outdegBound = 3 is the first pair where it gives one more)
flipLimit(V, outdegBound) == ceilLogFrom(V, outdegBound, 0, 1)

\* mutant: a goal test that takes a vertex at the bound for a goal
seekGoalAtBound(orientation, v, outdegBound, st) ==
    IF getOutdegree(orientation, v) <= outdegBound
    THEN IF st.foundPath = <<>>
         THEN [st EXCEPT !.foundPath = st.currentPath]
         ELSE IF Len(st.currentPath) < Len(st.foundPath)
         THEN [st EXCEPT !.foundPath = st.currentPath]
         ELSE st
    ELSE st

\* st is [visited, currentPath, foundPath]
\* goal found, but prefer shorter paths
seekGoal(orientation, v, outdegBound, st) ==
    IF getOutdegree(orientation, v) < outdegBound
    THEN IF st.foundPath = <<>>
         THEN [st EXCEPT !.foundPath = st.currentPath]
         ELSE IF Len(st.currentPath) < Len(st.foundPath)
         THEN [st EXCEPT !.foundPath = st.currentPath]
         ELSE st
    ELSE st

push_back(st, neighbour) ==
    [st EXCEPT !.currentPath = Append(@, neighbour)]

pop_back(st) ==
    [st EXCEPT !.currentPath = SubSeq(@, 1, Len(@) - 1)]

RECURSIVE seekShortPath(_, _, _, _, _)
RECURSIVE seekNeighbours(_, _, _, _, _)
\* the loop over getOutNeighbours(v)
seekNeighbours(neighbours, distanceLeft, outdegBound, orientation, st) ==
    IF neighbours = <<>> THEN st
    ELSE IF ~st.visited[Head(neighbours)]
    THEN seekNeighbours(Tail(neighbours), distanceLeft, outdegBound,
             orientation,
             pop_back(seekShortPath(Head(neighbours), distanceLeft - 1,
                                    outdegBound, orientation,
                                    push_back(st, Head(neighbours)))))
    ELSE seekNeighbours(Tail(neighbours), distanceLeft, outdegBound,
                        orientation, st)

seekDescend(v, distanceLeft, outdegBound, orientation, st) ==
    IF distanceLeft > 0
    THEN seekNeighbours(getOutNeighbours(orientation, v), distanceLeft,
                        outdegBound, orientation, st)
    ELSE st

seekShortPath(v, distanceLeft, outdegBound, orientation, st) ==
    seekDescend(v, distanceLeft, outdegBound, orientation,
        seekGoal(orientation, v, outdegBound,
                 [st EXCEPT !.visited[v] = TRUE]))

\* the path flipOnShortPath finds from startNode
seekFrom(orientation, startNode, outdegBound) ==
    seekShortPath(startNode, flipLimit(orientation.V, outdegBound),
        outdegBound, orientation,
        [visited |-> [v \in 0..(orientation.V - 1) |-> FALSE],
         currentPath |-> <<startNode>>,
         foundPath |-> <<>>]).foundPath

\* mutant: flipOnShortPath that leaves the path as it is
flipAlongNoFlip(orientation, foundPath, p) == orientation

\* orientation.flipEdge(foundPath[p-1], foundPath[p]) from p on; foundPath
\* is indexed from 1 here, so that p is the place of the edge's first end
RECURSIVE flipAlong(_, _, _)
flipAlong(orientation, foundPath, p) ==
    IF p >= Len(foundPath) THEN orientation
    ELSE flipAlong(flipEdge(orientation, foundPath[p], foundPath[p + 1]),
                   foundPath, p + 1)

\* mutant: totalFlips that counts the nodes of the path
countFlipsAsNodes(totalFlips, foundPath) == totalFlips + Len(foundPath)

\* totalFlips += foundPath.size() - 1
countFlips(totalFlips, foundPath) == totalFlips + Len(foundPath) - 1

\* b is [orientation, totalFlips, foundPath, ok]; ok is lost when an
\* assertion fails
flipWith(b, foundPath) ==
    IF foundPath = <<>>
    THEN [b EXCEPT !.foundPath = foundPath, !.ok = FALSE]
    ELSE [b EXCEPT !.orientation = flipAlong(@, foundPath, 1),
                   !.totalFlips = countFlips(@, foundPath),
                   !.foundPath = foundPath]

flipOnShortPath(b, startNode, outdegBound) ==
    flipWith(b, seekFrom(b.orientation, startNode, outdegBound))

\* orientation.orientEdge(u, v), with its assertion
orientChecked(b, u, v) ==
    IF FOcontains(b.orientation, u, v) THEN [b EXCEPT !.ok = FALSE]
    ELSE [b EXCEPT !.orientation = orientEdge(@, u, v)]

\* orientation.removeEdge(u, v), with its assertion
removeChecked(b, u, v) ==
    IF ~isOriented(b.orientation, u, v) THEN [b EXCEPT !.ok = FALSE]
    ELSE [b EXCEPT !.orientation = removeEdge(@, u, v)]

orientAfterFlip(b, u, v) == IF b.ok THEN orientChecked(b, u, v) ELSE b

\* the body of the loop of propagateBack for an INSERT
reverseInsert(b, u, v) ==
    IF isOriented(b.orientation, u, v) THEN removeChecked(b, u, v)
    ELSE removeChecked(b, v, u)

\* the body of the loop of propagateBack for a DELETE
reverseDelete(b, u, v, outdegBound) ==
    IF getOutdegree(b.orientation, u) < outdegBound
    THEN orientChecked(b, u, v)
    ELSE orientAfterFlip(flipOnShortPath(b, u, outdegBound), u, v)


(***************************************************************************)
(* One call of orientByBrodalStrategy(opi, outdegBound).  The strategy     *)
(* reads opi.sequence from its last command to its first, and reads it     *)
(* nowhere else but to build the last snapshot, so a command is chosen     *)
(* when propagateBack reads it, among the commands that a valid sequence   *)
(* of TIMEFRAME commands has at that place.  present is the edge set of    *)
(* the snapshot after the commands not yet read.                           *)
(***************************************************************************)
BrodalMaxV == 4

BrodalMaxLen == 5

BrodalMaxBound == 2

CanonicalEdges(V) == {e \in (0..(V - 1)) \X (0..(V - 1)) : e[1] < e[2]}

\* some valid sequence of t commands on the empty forest ends with edges E
EndsValid(E, t) ==
    /\ Acyclic(E)
    /\ Cardinality(E) <= t
    /\ (t - Cardinality(E)) % 2 = 0

\* the orders in which the edges E can have been inserted
InsertionOrders(E) ==
    {s \in [1..Cardinality(E) -> E] : Range(s) = E}

BrodalInit ==
    /\ pc = "brodal"
    /\ \E V \in 2..BrodalMaxV, L \in 1..BrodalMaxLen,
          outdegBound \in 2..BrodalMaxBound :
          \E E \in SUBSET CanonicalEdges(V) :
              /\ EndsValid(E, L)
              /\ brodal = [V |-> V, outdegBound |-> outdegBound,
                           TIMEFRAME |-> L, time |-> L - 1, present |-> E,
                           orientation |-> ForestOrientation(V),
                           totalFlips |-> 0, foundPath |-> <<>>,
                           ok |-> TRUE]
    /\ instance = NULL
    /\ sequenceLen = 0
    /\ graph = NULL
    /\ purgeCountdown = 0
    /\ time = 0
    /\ ipi = NULL
    /\ solver = NULL
    /\ kowalik = NULL
    /\ avl = NULL
    /\ script = NULL
    /\ links = NULL
    /\ linked = NULL
    /\ forestObj = NULL
    /\ unit = NULL
    /\ reference = NULL
    /\ ret = NULL

brodalRest ==
    <<instance, genVars, pipeVars, avl, script, links, linked, forestObj, unit,
      reference, ret>>

\* constructOptimalOrientation(graphs.back(), orientation); graphs.back()
\* holds the edges present, inserted into a fresh Forest in some order
BrodalOrientLast ==
    /\ pc = "brodal"
    /\ \E order \in InsertionOrders(brodal.present) :
          brodal' = [brodal EXCEPT !.orientation =
              constructOptimalOrientation(
                  copyEdges(Forest(brodal.V), order), @)]
    /\ pc' = "propagate"
    /\ UNCHANGED brodalRest

afterStep(b) == [b EXCEPT !.time = @ - 1]

\* one turn of the loop of propagateBack on an INSERT: the edge is present
\* after the command and absent before it
BrodalReverseInsert ==
    /\ pc = "propagate"
    /\ brodal.time >= 0
    /\ \E e \in brodal.present :
          /\ EndsValid(brodal.present \ {e}, brodal.time)
          /\ brodal' = afterStep(reverseInsert(
                 [brodal EXCEPT !.present = @ \ {e}, !.foundPath = <<>>],
                 e[1], e[2]))
    /\ pc' = IF brodal'.ok THEN "propagate" ELSE "aborted"
    /\ UNCHANGED brodalRest

\* one turn of the loop of propagateBack on a DELETE: the edge is absent
\* after the command and present before it
BrodalReverseDelete ==
    /\ pc = "propagate"
    /\ brodal.time >= 0
    /\ \E e \in CanonicalEdges(brodal.V) \ brodal.present :
          /\ EndsValid(brodal.present \cup {e}, brodal.time)
          /\ brodal' = afterStep(reverseDelete(
                 [brodal EXCEPT !.present = @ \cup {e}, !.foundPath = <<>>],
                 e[1], e[2], brodal.outdegBound))
    /\ pc' = IF brodal'.ok THEN "propagate" ELSE "aborted"
    /\ UNCHANGED brodalRest

\* return totalFlips
BrodalReturn ==
    /\ pc = "propagate"
    /\ brodal.time < 0
    /\ pc' = "returned"
    /\ UNCHANGED <<brodal, brodalRest>>

BrodalNext ==
    \/ BrodalOrientLast
    \/ BrodalReverseInsert
    \/ BrodalReverseDelete
    \/ BrodalReturn

SpecBrodal == BrodalInit /\ [][BrodalNext]_vars


(***************************************************************************)
(* Properties of Brodal and Fagerberg's strategy.                          *)
(***************************************************************************)
\* the edges that directions orients from v
OutEdges(orientation, v) == {p \in orientation.directions : p[1] = v}

BrodalRunning == pc \in {"propagate", "returned"}

\* the step taken went through flipOnShortPath
FlipStep == BrodalRunning /\ Len(brodal.foundPath) >= 2

\* C11: for every valid alpha=1 sequence and outdegBound > 1, after the
\* orientation of the last snapshot and after each completed reverse step
\* of propagateBack, every vertex has at most outdegBound edges oriented
\* from it, by its counter and in the set of directions.
C11_BrodalOutdegreeBound ==
    BrodalRunning =>
        \A v \in 0..(brodal.V - 1) :
            /\ getOutdegree(brodal.orientation, v) <= brodal.outdegBound
            /\ Cardinality(OutEdges(brodal.orientation, v))
                   <= brodal.outdegBound

\* a reverse step has flipped a path and left a vertex at the bound
C11_Witness ==
    /\ FlipStep
    /\ \E v \in 0..(brodal.V - 1) :
          Cardinality(OutEdges(brodal.orientation, v)) = brodal.outdegBound

\* the edges a step turns round
Flipped ==
    {p \in brodal.orientation.directions :
        <<p[2], p[1]>> \in brodal'.orientation.directions}

FlipsWithinLimit ==
    (pc = "propagate" /\ pc' = "propagate") =>
        /\ Cardinality(Flipped) <= flipLimit(brodal.V, brodal.outdegBound)
        /\ brodal'.totalFlips = brodal.totalFlips + Cardinality(Flipped)

Emits == Len(instance'.sequence) = Len(instance.sequence) + 1

Emitted == instance'.sequence[Len(instance'.sequence)]

FullCount == (instance.V - 1) * instance.alpha

\* between the enforcement and the emission of an Insert, the edge count and
\* purgeCountdown stay what they were at the head of the iteration
InsertKeepsCounts ==
    (pc = "loop" \/ pc = "insert") /\ pc' = "insert" =>
        /\ getEdgeCount(graph') = getEdgeCount(graph)
        /\ purgeCountdown' = purgeCountdown

EmittedAsEnforced ==
    Emits =>
        IF getEdgeCount(graph) = 0 THEN Emitted.operation = INSERT
        ELSE IF getEdgeCount(graph) = FullCount
        THEN Emitted.operation = DELETE
        ELSE purgeCountdown > 0 => Emitted.operation = DELETE

\* C25: in every iteration of generateInstance the command emitted is an
\* Insert if the edge count before it is 0; otherwise a Delete if the edge
\* count is (V-1)*alpha; otherwise a Delete if purgeCountdown > 0.
C25_GeneratorOverrides ==
    [][InsertKeepsCounts /\ EmittedAsEnforced]_vars

\* an iteration is about to run, after a command at least, with a purge
\* active on a graph that is neither empty nor full
C25_Witness ==
    /\ pc = "loop"
    /\ time < sequenceLen
    /\ instance.sequence # <<>>
    /\ purgeCountdown > 0
    /\ getEdgeCount(graph) > 0
    /\ getEdgeCount(graph) < FullCount

PurgeStep ==
    (pc = "loop" /\ purgeCountdown > 0 /\ pc' # pc) => pc' = "returned"

PurgeDeletes ==
    (purgeCountdown > 0 /\ Emits) =>
        /\ Emitted.operation = DELETE
        /\ purgeCountdown' = purgeCountdown - 1

\* C29: at the head of every iteration of generateInstance
\* 2 * purgeCountdown <= edge count; an iteration with purgeCountdown > 0
\* never enters insertRandomEdge, emits a Delete and lowers purgeCountdown
\* by one, so a purge of k lasts k Delete commands.
C29_PurgeNeverDrains ==
    /\ [](pc \in {"loop", "insert", "returned"} =>
            2 * purgeCountdown <= getEdgeCount(graph))
    /\ [][PurgeStep /\ PurgeDeletes]_vars

\* a purge of the greatest length allowed has been started and has an
\* iteration to run in
C29_Witness ==
    /\ pc = "loop"
    /\ time < sequenceLen
    /\ purgeCountdown > 0
    /\ 2 * purgeCountdown = getEdgeCount(graph)


(***************************************************************************)
(* Properties of the rounds of solveInstance.                              *)
(***************************************************************************)
\* the spans [startTime, endTime] of a and b share a timestamp
SpansOverlap(a, b) == a.startTime <= b.endTime /\ b.startTime <= a.endTime

\* how many intervals already assigned to v overlap intv
AssignedOverlapping(intervals, v, intv) ==
    Cardinality({j \in DOMAIN intervals :
                    /\ intervals[j].status # NOT_SET
                    /\ getAssignedNode(intervals[j]) = v
                    /\ SpansOverlap(intervals[j], intv)})

\* the step is a round of the while loop
RoundTaken == pc = "solving" /\ solver'.taken # solver.taken

Popped == ipi.intervals[Head(solver.queue)]

OtherNode(intv) ==
    IF intv.status = FIRST_NODE_SELECTED THEN intv.nodes[2] ELSE intv.nodes[1]

OwnerAsCounted ==
    RoundTaken =>
        /\ ipi'.intervals[Head(solver.queue)].status =
              IF AssignedOverlapping(ipi.intervals, Popped.nodes[1], Popped)
                     > AssignedOverlapping(ipi.intervals, Popped.nodes[2],
                                           Popped)
              THEN SECOND_NODE_SELECTED ELSE FIRST_NODE_SELECTED
        /\ AssignedOverlapping(ipi.intervals,
               getAssignedNode(ipi'.intervals[Head(solver.queue)]), Popped)
             <= AssignedOverlapping(ipi.intervals,
                    OtherNode(ipi'.intervals[Head(solver.queue)]), Popped)

\* C26: the interval popped, on edge (u,v), is given to v iff the intervals
\* already assigned to u that overlap it are more than those assigned to v,
\* and to u otherwise; its owner has no more of them than the other node.
C26_OwnerChoice == [][OwnerAsCounted]_vars

\* rounds have given an interval to its second node and, on a tie with
\* overlapping intervals on both nodes, another to its first
C26_Witness ==
    /\ pc = "solving"
    /\ \E i, j, k \in DOMAIN ipi.intervals :
          /\ ipi.intervals[i].status = FIRST_NODE_SELECTED
          /\ ipi.intervals[j].status = SECOND_NODE_SELECTED
          /\ solver.taken = <<i, j, k>>
          /\ ipi.intervals[k].status = FIRST_NODE_SELECTED
          /\ SpansOverlap(ipi.intervals[i], ipi.intervals[k])
          /\ SpansOverlap(ipi.intervals[j], ipi.intervals[k])
          /\ ipi.intervals[i].nodes = ipi.intervals[k].nodes
          /\ ipi.intervals[j].nodes = ipi.intervals[k].nodes

NotSet(intervals) == {i \in DOMAIN intervals : intervals[i].status = NOT_SET}

\* the assigned intervals that overlap intv and are owned by a node of intv
ScoreOf(intervals, intv) ==
    Cardinality({j \in DOMAIN intervals :
                    /\ intervals[j].status # NOT_SET
                    /\ getAssignedNode(intervals[j])
                           \in {intv.nodes[1], intv.nodes[2]}
                    /\ SpansOverlap(intervals[j], intv)})

\* a goes before b: higher score, or equal score and smaller time bounds
GoesBefore(a, b) ==
    \/ a.score > b.score
    \/ /\ a.score = b.score
       /\ PairLess(<<a.startTime, a.endTime>>, <<b.startTime, b.endTime>>)

QueueInOrder ==
    /\ Len(solver.queue) = Cardinality(NotSet(ipi.intervals))
    /\ Range(solver.queue) = NotSet(ipi.intervals)
    /\ \A a, b \in DOMAIN solver.queue :
          a < b => GoesBefore(ipi.intervals[solver.queue[a]],
                              ipi.intervals[solver.queue[b]])

ScoresCounted ==
    \A i \in NotSet(ipi.intervals) :
        ipi.intervals[i].score = ScoreOf(ipi.intervals, ipi.intervals[i])

PopsBest ==
    RoundTaken =>
        /\ solver'.taken = Append(solver.taken, Head(solver.queue))
        /\ \A i \in NotSet(ipi.intervals) \ {Head(solver.queue)} :
              GoesBefore(Popped, ipi.intervals[i])

\* C27: at the head of every round each NOT_SET interval has as score the
\* number of assigned intervals that overlap it and are owned by one of its
\* nodes, the queue holds the NOT_SET intervals once each in the order of
\* their present scores, and the interval taken has the highest score, the
\* smallest (startTime, endTime) among those of that score.
C27_ScoresAndPopOrder ==
    /\ [](pc = "solving" => (ScoresCounted /\ QueueInOrder))
    /\ [][PopsBest]_vars

\* a round is reached in which a raised score has moved an interval in front
\* of one with smaller time bounds
C27_Witness ==
    /\ pc = "solving"
    /\ Len(solver.queue) >= 2
    /\ ipi.intervals[solver.queue[1]].score >= 1
    /\ IntervalLess(ipi.intervals[solver.queue[2]],
                    ipi.intervals[solver.queue[1]])


(***************************************************************************)
(* Properties of flipOnShortPath as propagateBack calls it.                *)
(***************************************************************************)
\* the vertices reached from S along one outgoing edge
OutStep(orientation, S) ==
    {p[2] : p \in {d \in orientation.directions : d[1] \in S}}

\* the least number of outgoing edges from the vertices S to a vertex of
\* out-degree below outdegBound, counted from steps on; V + 1 if there is none
RECURSIVE GoalDistance(_, _, _, _)
GoalDistance(orientation, S, outdegBound, steps) ==
    IF \E w \in S : Cardinality(OutEdges(orientation, w)) < outdegBound
    THEN steps
    ELSE IF steps >= orientation.V \/ S = {} THEN orientation.V + 1
    ELSE GoalDistance(orientation, OutStep(orientation, S), outdegBound,
                      steps + 1)

\* the edge a reverse step puts back
Readded == brodal'.present \ brodal.present

\* the step reads a DELETE whose first node is at the bound or above
CallsFlip(e) == getOutdegree(brodal.orientation, e[1]) >= brodal.outdegBound

\* what the call leaves, before the edge is oriented
AfterFlips(e) == flipOnShortPath(brodal, e[1], brodal.outdegBound)

PathFound(e, path) ==
    /\ Len(path) >= 2
    /\ path[1] = e[1]
    /\ \A p \in 1..(Len(path) - 1) :
          isOriented(brodal.orientation, path[p], path[p + 1])
    /\ getOutdegree(brodal.orientation, path[Len(path)]) < brodal.outdegBound
    /\ Len(path) - 1 <= flipLimit(brodal.V, brodal.outdegBound)
    /\ Len(path) - 1 =
          GoalDistance(brodal.orientation, {e[1]}, brodal.outdegBound, 0)

PathFlipped(e, path, after) ==
    /\ after.ok
    /\ after.orientation.directions =
          (brodal.orientation.directions
              \ {<<path[p], path[p + 1]>> : p \in 1..(Len(path) - 1)})
          \cup {<<path[p + 1], path[p]>> : p \in 1..(Len(path) - 1)}
    /\ \A x \in 0..(brodal.V - 1) :
          getOutdegree(after.orientation, x) =
              IF x = e[1] THEN brodal.outdegBound - 1
              ELSE IF x = path[Len(path)]
              THEN getOutdegree(brodal.orientation, x) + 1
              ELSE getOutdegree(brodal.orientation, x)
    /\ brodal'.orientation = orientEdge(after.orientation, e[1], e[2])

FlipCallSucceeds ==
    (pc = "propagate" /\ brodal' # brodal) =>
        \A e \in Readded :
            CallsFlip(e) =>
                /\ getOutdegree(brodal.orientation, e[1]) = brodal.outdegBound
                /\ pc' = "propagate"
                /\ PathFound(e, brodal'.foundPath)
                /\ PathFlipped(e, brodal'.foundPath, AfterFlips(e))

OrientMaxV == 3

OrientInit ==
    /\ pc = "orientation"
    /\ \E V \in 2..OrientMaxV : unit = ForestOrientation(V)
    /\ reference = {}
    /\ ret = NULL
    /\ brodal = NULL
    /\ avl = NULL
    /\ script = NULL
    /\ links = NULL
    /\ linked = NULL
    /\ forestObj = NULL
    /\ mainIdle

orientRest ==
    <<pc, instance, genVars, pipeVars, brodal, avl, script, links, linked,
      forestObj>>

OrientVertices == 0..(unit.V - 1)

OrientOrientEdge ==
    /\ pc = "orientation"
    /\ \E from \in OrientVertices :
      \E to \in OrientVertices \ {from} :
          /\ ~FOcontains(unit, from, to)
          /\ unit' = orientEdge(unit, from, to)
          /\ reference' = reference \cup {<<from, to>>}
          /\ ret' = [call |-> "orientEdge", from |-> from, to |-> to]
    /\ UNCHANGED orientRest

OrientRemoveEdge ==
    /\ pc = "orientation"
    /\ \E from \in OrientVertices :
      \E to \in OrientVertices \ {from} :
          /\ isOriented(unit, from, to)
          /\ unit' = removeEdge(unit, from, to)
          /\ reference' = reference \ {<<from, to>>}
          /\ ret' = [call |-> "removeEdge", from |-> from, to |-> to]
    /\ UNCHANGED orientRest

OrientFlipEdge ==
    /\ pc = "orientation"
    /\ \E from \in OrientVertices :
      \E to \in OrientVertices \ {from} :
          /\ isOriented(unit, from, to)
          /\ unit' = flipEdge(unit, from, to)
          /\ reference' = (reference \ {<<from, to>>}) \cup {<<to, from>>}
          /\ ret' = [call |-> "flipEdge", from |-> from, to |-> to]
    /\ UNCHANGED orientRest

OrientNext ==
    \/ OrientOrientEdge
    \/ OrientRemoveEdge
    \/ OrientFlipEdge

SpecOrientation == OrientInit /\ [][OrientNext]_vars

(***************************************************************************)
(* Properties of the ForestOrientation calls.                              *)
(***************************************************************************)
ElementsOf(seq) == {seq[i] : i \in DOMAIN seq}

NoRepeats(seq) == Cardinality(ElementsOf(seq)) = Len(seq)

OneDirectionOnly ==
    \A u \in OrientVertices, w \in OrientVertices :
        ~(isOriented(unit, u, w) /\ isOriented(unit, w, u))

LookupsAgree ==
    \A v \in OrientVertices :
        /\ getOutdegree(unit, v) = Cardinality({p \in reference : p[1] = v})
        /\ ElementsOf(getOutNeighbours(unit, v)) =
              {p[2] : p \in {q \in reference : q[1] = v}}
        /\ NoRepeats(getOutNeighbours(unit, v))
        /\ ElementsOf(getInNeighbours(unit, v)) =
              {p[1] : p \in {q \in reference : q[2] = v}}
        /\ NoRepeats(getInNeighbours(unit, v))

StoredAsOriented ==
    \A u \in OrientVertices, w \in OrientVertices :
        isOriented(unit, u, w) <=> <<u, w>> \in reference

FlipReplaces ==
    (pc = "orientation" /\ ret' # NULL /\ ret'.call = "flipEdge") =>
        /\ <<ret'.from, ret'.to>> \in unit.directions
        /\ unit'.directions =
              (unit.directions \ {<<ret'.from, ret'.to>>})
                  \cup {<<ret'.to, ret'.from>>}
        /\ <<ret'.from, ret'.to>> \notin unit'.directions

\* C23: after any sequence of orientEdge, removeEdge and flipEdge calls made
\* where their assertions hold, no edge is stored in both directions, the
\* stored pairs are those oriented and not removed, getOutdegree(v) is the
\* number of stored pairs (v,w), getOutNeighbours(v) lists exactly those w
\* and getInNeighbours(v) exactly the u with (u,v) stored, each once;
\* flipEdge(u,v) replaces (u,v) by (v,u) and changes no other pair.
C23_OrientationConsistent ==
    /\ [](pc = "orientation" =>
             (OneDirectionOnly /\ StoredAsOriented /\ LookupsAgree))
    /\ [][FlipReplaces]_vars

\* a flip has given a vertex its second incoming edge
C23_Witness ==
    /\ pc = "orientation"
    /\ ret # NULL
    /\ ret.call = "flipEdge"
    /\ Len(getInNeighbours(unit, ret.from)) = 2
    /\ getOutdegree(unit, ret.to) = 1


(***************************************************************************)
(* A caller of one IntervalTree  (src/src/interval-tree.cpp): insert,      *)
(* remove and getClashes/countClashes with low <= high, in any order, or   *)
(* the scripted calls insert [1,5], [3,7], [6,8], [10,12] and the queries  *)
(* (4,6) and (9,9).  reference is the bag of intervals inserted and not    *)
(* removed: a function from the intervals held to their numbers of copies. *)
(***************************************************************************)
\* free calls: bounds over 0..ItMaxHigh, at most ItMaxNodes nodes
ItMaxHigh == 2

ItMaxNodes == 4

ItIntervals == {r \in (0..ItMaxHigh) \X (0..ItMaxHigh) : r[1] <= r[2]}

itCall(name, low, high) == [call |-> name, low |-> low, high |-> high]

ItScenarioCalls ==
    <<itCall("insert", 1, 5), itCall("insert", 3, 7), itCall("insert", 6, 8),
      itCall("insert", 10, 12), itCall("getClashes", 4, 6),
      itCall("getClashes", 9, 9)>>

ItArguments ==
    ItIntervals \cup {<<c.low, c.high>> : c \in Range(ItScenarioCalls)}

itCallAllowed(name, range) ==
    IF scripted
    THEN /\ script.next <= Len(script.calls)
         /\ script.calls[script.next] = itCall(name, range[1], range[2])
    ELSE /\ range \in ItIntervals
         /\ name = "insert" => unit.nodeCount < ItMaxNodes

EmptyHeld == [r \in {} |-> 0]

HeldOnceMore(held, r) ==
    [x \in DOMAIN held \cup {r} |->
        IF x \in DOMAIN held THEN held[x] + (IF x = r THEN 1 ELSE 0) ELSE 1]

HeldOnceLess(held, r) ==
    [x \in {y \in DOMAIN held : y # r \/ held[y] > 1} |->
        held[x] - (IF x = r THEN 1 ELSE 0)]

ItInit ==
    /\ pc = "intervals"
    /\ unit = IntervalTree
    /\ reference = EmptyHeld
    /\ script \in {NULL, [calls |-> ItScenarioCalls, next |-> 1]}
    /\ ret = NULL
    /\ brodal = NULL
    /\ avl = NULL
    /\ links = NULL
    /\ linked = NULL
    /\ forestObj = NULL
    /\ mainIdle

itRest ==
    <<pc, instance, genVars, pipeVars, brodal, avl, links, linked, forestObj>>

ItInsert ==
    /\ pc = "intervals"
    /\ \E range \in ItArguments :
          /\ itCallAllowed("insert", range)
          /\ unit' = ITinsert(unit, range[1], range[2])
          /\ reference' = HeldOnceMore(reference, range)
    /\ ret' = NULL
    /\ scriptAdvance
    /\ UNCHANGED itRest

ItRemove ==
    /\ pc = "intervals"
    /\ \E range \in ItArguments :
          /\ itCallAllowed("remove", range)
          /\ unit' = ITremove(unit, range[1], range[2])
          /\ reference' = HeldOnceLess(reference, range)
    /\ ret' = NULL
    /\ scriptAdvance
    /\ UNCHANGED itRest

\* getClashes(low, high), and countClashes(low, high) on the same tree
ItGetClashes ==
    /\ pc = "intervals"
    /\ \E range \in ItArguments :
          /\ itCallAllowed("getClashes", range)
          /\ ret' = [call |-> "getClashes", low |-> range[1],
                     high |-> range[2],
                     result |-> getClashes(unit, range[1], range[2]),
                     count |-> countClashes(unit, range[1], range[2])]
    /\ scriptAdvance
    /\ UNCHANGED <<unit, reference, itRest>>

ItNext ==
    \/ ItInsert
    \/ ItRemove
    \/ ItGetClashes

SpecIntervalTree == ItInit /\ [][ItNext]_vars

(***************************************************************************)
(* Properties of the IntervalTree queries.                                 *)
(***************************************************************************)
\* the intervals of a result, each with the number of times it is listed
Listed(result) ==
    [r \in ElementsOf(result) |->
        Cardinality({i \in DOMAIN result : result[i] = r})]

\* the held intervals I with I.low <= h and l <= I.high, with their copies
Overlapping(held, l, h) ==
    [r \in {x \in DOMAIN held : x[1] <= h /\ l <= x[2]} |-> held[r]]

RECURSIVE Copies(_, _)
Copies(held, S) ==
    IF S = {} THEN 0
    ELSE held[CHOOSE r \in S : TRUE]
            + Copies(held, S \ {CHOOSE r \in S : TRUE})

\* the bounds a query can tell apart: those held, one below and one above
QueryBounds ==
    (0..ItMaxHigh)
        \cup UNION {{r[1], r[2], r[2] + 1} : r \in DOMAIN reference}

EveryQueryExact ==
    \A l \in QueryBounds, h \in QueryBounds :
        l <= h =>
            /\ Listed(getClashes(unit, l, h)) = Overlapping(reference, l, h)
            /\ countClashes(unit, l, h) =
                  Copies(reference, DOMAIN Overlapping(reference, l, h))

AnswerExact ==
    ret # NULL =>
        /\ Listed(ret.result) = Overlapping(reference, ret.low, ret.high)
        /\ ret.count = Len(ret.result)

ScenarioAnswers ==
    (scripted /\ ret # NULL) =>
        /\ (ret.low = 4 /\ ret.high = 6) =>
              /\ ElementsOf(ret.result) = {<<1, 5>>, <<3, 7>>, <<6, 8>>}
              /\ ret.count = 3
        /\ (ret.low = 9 /\ ret.high = 9) =>
              /\ ret.result = <<>>
              /\ ret.count = 0

\* C21: for the intervals left by any sequence of insert and remove calls
\* (copies allowed, 0 <= low <= high) and any query [l,h], getClashes(l,h)
\* lists exactly the held intervals I with I.low <= h and l <= I.high, each
\* as many times as it is held, and countClashes(l,h) is the length of that
\* list; after insert [1,5], [3,7], [6,8], [10,12] the query (4,6) gives
\* [1,5], [3,7], [6,8] and the query (9,9) gives nothing.
C21_ClashesExact ==
    pc = "intervals" => (EveryQueryExact /\ AnswerExact /\ ScenarioAnswers)

\* a free caller's query has listed one interval twice and has not entered
\* the left subtree of the root, whose highest is below the query
C21_Witness ==
    /\ pc = "intervals"
    /\ ~scripted
    /\ ret # NULL
    /\ ~NoRepeats(ret.result)
    /\ Len(ret.result) < unit.nodeCount
    /\ unit.nodeCount = ItMaxNodes
    /\ unit.root.left # NULL
    /\ unit.root.left.highest < ret.low


(***************************************************************************)
(* A caller of one SegmentTreePlusMax<uint8_t>  (src/src/segment-tree.cpp):*)
(* insert and query with 0 <= leftBound <= rightBound < size, in any       *)
(* order, or the scripted calls on size 8: insert(1,4,3), insert(3,6,2),   *)
(* query(0,7), query(0,2), query(5,7).  reference is the caller's array:   *)
(* sums[i] is the sum of the values inserted over ranges that cover i.     *)
(***************************************************************************)
\* free calls: sizes 1..StMaxSize, values 1..StMaxValue, StMaxInserts inserts
StMaxSize == 3

StMaxValue == 1

StMaxInserts == 2

stCall(name, leftBound, rightBound, value) ==
    [call |-> name, leftBound |-> leftBound, rightBound |-> rightBound,
     value |-> value]

StScenarioSize == 8

StScenarioCalls ==
    <<stCall("insert", 1, 4, 3), stCall("insert", 3, 6, 2),
      stCall("query", 0, 7, 0), stCall("query", 0, 2, 0),
      stCall("query", 5, 7, 0)>>

StBounds == {s \in (0..(unit.size - 1)) \X (0..(unit.size - 1)) : s[1] <= s[2]}

StValues == (1..StMaxValue) \cup {c.value : c \in Range(StScenarioCalls)}

stCallAllowed(name, seg, value) ==
    IF scripted
    THEN /\ script.next <= Len(script.calls)
         /\ script.calls[script.next] = stCall(name, seg[1], seg[2], value)
    ELSE /\ value \in 0..StMaxValue
         /\ name = "insert" =>
               (value >= 1 /\ reference.inserts < StMaxInserts)

StArray(size) == [sums |-> [i \in 0..(size - 1) |-> 0], inserts |-> 0]

StInit ==
    /\ pc = "segments"
    /\ \/ /\ script = NULL
          /\ \E size \in 1..StMaxSize :
                /\ unit = SegmentTreePlusMax(size)
                /\ reference = StArray(size)
       \/ /\ script = [calls |-> StScenarioCalls, next |-> 1]
          /\ unit = SegmentTreePlusMax(StScenarioSize)
          /\ reference = StArray(StScenarioSize)
    /\ ret = NULL
    /\ brodal = NULL
    /\ avl = NULL
    /\ links = NULL
    /\ linked = NULL
    /\ forestObj = NULL
    /\ mainIdle

stRest ==
    <<pc, instance, genVars, pipeVars, brodal, avl, links, linked, forestObj>>

StInsert ==
    /\ pc = "segments"
    /\ \E seg \in StBounds, value \in StValues :
          /\ stCallAllowed("insert", seg, value)
          /\ unit' = STinsert(unit, seg[1], seg[2], value)
          /\ reference' =
                [sums |-> [i \in DOMAIN reference.sums |->
                              IF seg[1] <= i /\ i <= seg[2]
                              THEN reference.sums[i] + value
                              ELSE reference.sums[i]],
                 inserts |-> reference.inserts + 1]
    /\ ret' = NULL
    /\ scriptAdvance
    /\ UNCHANGED stRest

StQuery ==
    /\ pc = "segments"
    /\ \E seg \in StBounds :
          /\ stCallAllowed("query", seg, 0)
          /\ unit' = STquery(unit, seg[1], seg[2]).tree
          /\ ret' = [call |-> "query", leftBound |-> seg[1],
                     rightBound |-> seg[2],
                     result |-> STquery(unit, seg[1], seg[2]).result]
    /\ scriptAdvance
    /\ UNCHANGED <<reference, stRest>>

StNext ==
    \/ StInsert
    \/ StQuery

SpecSegmentTree == StInit /\ [][StNext]_vars

(***************************************************************************)
(* Properties of the SegmentTreePlusMax calls.                             *)
(***************************************************************************)
\* the greatest of sums[l..r]
PeakOf(sums, l, r) ==
    CHOOSE m \in {sums[i] : i \in l..r} : \A i \in l..r : sums[i] <= m

\* what query(l, r) would return now
AnswerNow(tree, l, r) == STquery(tree, l, r).result

EveryAnswerIsPeak ==
    \A seg \in StBounds :
        AnswerNow(unit, seg[1], seg[2]) = PeakOf(reference.sums, seg[1], seg[2])

ReturnedPeak ==
    ret # NULL =>
        ret.result = PeakOf(reference.sums, ret.leftBound, ret.rightBound)

StScenarioAnswers ==
    (scripted /\ ret # NULL) =>
        /\ (ret.leftBound = 0 /\ ret.rightBound = 7) => ret.result = 5
        /\ (ret.leftBound = 0 /\ ret.rightBound = 2) => ret.result = 3
        /\ (ret.leftBound = 5 /\ ret.rightBound = 7) => ret.result = 2

QueryKeepsAnswers ==
    (pc = "segments" /\ ret' # NULL) =>
        \A seg \in StBounds :
            AnswerNow(unit', seg[1], seg[2]) = AnswerNow(unit, seg[1], seg[2])

\* C22: for any size >= 1 and any interleaving of insert(l,r,v) and
\* query(l,r) with 0 <= l <= r < size and sums below 2^8, every query(l,r)
\* returns the greatest over i in l..r of the sum of the values inserted
\* before over ranges covering i; on size 8, after insert(1,4,3) and
\* insert(3,6,2), query(0,7) = 5, query(0,2) = 3 and query(5,7) = 2; a query
\* changes the answer of no later query.
C22_SegmentTreeAsArray ==
    /\ [](pc = "segments" =>
             (EveryAnswerIsPeak /\ ReturnedPeak /\ StScenarioAnswers))
    /\ [][QueryKeepsAnswers]_vars

\* a free caller's query after two inserts has returned a peak that is not
\* the sum at every index, from a tree that holds a lazy value below its root
C22_Witness ==
    /\ pc = "segments"
    /\ ~scripted
    /\ ret # NULL
    /\ reference.inserts = 2
    /\ ret.result >= 2
    /\ \E i \in DOMAIN reference.sums : reference.sums[i] < ret.result
    /\ unit.root.left # NULL
    /\ unit.root.lazy = 0
    /\ unit.root.left.lazy > 0


(***************************************************************************)
(* The timeline outdeg[v] of one vertex v as the loop of solveInstance     *)
(* updates it  (src/src/solver.cpp, lines 48-54), for the intervals whose  *)
(* status selects v.  The intervals given to v have pairwise distinct time *)
(* bounds, all hold the timestamp reference.shared, and arrive in the      *)
(* order of their bounds.  reference.sums[t] is the number of those        *)
(* intervals that hold t: the out-degree of v at time t.                   *)
(***************************************************************************)
TimelineFrame == 32

TimelineShared == {TimelineFrame \div 2 - 1, TimelineFrame \div 2}

TimelineInit ==
    /\ pc = "timeline"
    /\ unit = [outdeg |-> SegmentTreePlusMax(TimelineFrame),
               maxOutdegree |-> 0]
    /\ \E shared \in TimelineShared :
          reference = [shared |-> shared,
                       sums |-> [t \in 0..(TimelineFrame - 1) |-> 0],
                       last |-> NULL]
    /\ ret = NULL
    /\ brodal = NULL
    /\ avl = NULL
    /\ script = NULL
    /\ links = NULL
    /\ linked = NULL
    /\ forestObj = NULL
    /\ mainIdle

timelineRest ==
    <<instance, genVars, pipeVars, brodal, avl, script, links, linked,
      forestObj>>

\* the intervals that hold the shared timestamp and come after the last one
\* given, in the order of Interval::operator<
TimelineLater ==
    {r \in (0..reference.shared) \X (reference.shared..(TimelineFrame - 1)) :
        reference.last # NULL => PairLess(reference.last, r)}

\* lines 49-54 on the timeline of the assigned node
assignOutdeg(timeline, queried) ==
    [outdeg |-> queried.tree,
     maxOutdegree |-> max(queried.result, timeline.maxOutdegree)]

TimelineAssign ==
    /\ pc = "timeline"
    /\ TimelineLater # {}
    /\ \E current \in TimelineLater :
          /\ \A r \in TimelineLater : ~PairLess(r, current)
          /\ unit' = assignOutdeg(unit,
                        STquery(STinsert(unit.outdeg, current[1], current[2], 1),
                                current[1], current[2]))
          /\ reference' =
                [reference EXCEPT
                    !.sums = [t \in DOMAIN reference.sums |->
                                 IF current[1] <= t /\ t <= current[2]
                                 THEN reference.sums[t] + 1
                                 ELSE reference.sums[t]],
                    !.last = current]
          /\ ret' = [call |-> "query", leftBound |-> current[1],
                     rightBound |-> current[2],
                     result |-> STquery(STinsert(unit.outdeg, current[1],
                                                 current[2], 1),
                                        current[1], current[2]).result]
    /\ UNCHANGED <<pc, timelineRest>>

\* no interval is left for the vertex
TimelineReturn ==
    /\ pc = "timeline"
    /\ TimelineLater = {}
    /\ pc' = "returned"
    /\ UNCHANGED <<unit, reference, ret, timelineRest>>

TimelineNext ==
    \/ TimelineAssign
    \/ TimelineReturn

SpecTimeline == TimelineInit /\ [][TimelineNext]_vars

(***************************************************************************)
(* Properties of the out-degree timeline.                                  *)
(***************************************************************************)
\* C30: the maximum kept for the vertex is its exact peak out-degree, and
\* the answer of each query is the exact peak over the interval assigned,
\* however many of the intervals of the vertex share a timestamp.
C30_NoWrapAround ==
    pc \in {"timeline", "returned"} =>
        /\ unit.maxOutdegree =
              PeakOf(reference.sums, 0, TimelineFrame - 1)
        /\ ret # NULL =>
              ret.result =
                  PeakOf(reference.sums, ret.leftBound, ret.rightBound)


(***************************************************************************)
(* Formula  (src/src/logic.h, logic.cpp)                                   *)
(* A literal is a record [polarity, index], a clause a sequence of         *)
(* literals, the formula a sequence of clauses.  A Valuation is a function *)
(* from the variable indexes it holds to BOOLEAN.                          *)
(***************************************************************************)
POSITIVE == "POSITIVE"

NEGATIVE == "NEGATIVE"

SATISFIABLE == "SATISFIABLE"

UNSATISFIABLE == "UNSATISFIABLE"

NO_VERDICT == "NO_VERDICT"

Literal(polarity, index) == [polarity |-> polarity, index |-> index]

\* a Valuation with no entry
Valuation == [index \in {} |-> TRUE]

\* val.count(index)
valCount(val, index) == index \in DOMAIN val

\* val[index] = value
valAssign(val, index, value) ==
    [x \in DOMAIN val \cup {index} |-> IF x = index THEN value ELSE val[x]]

\* val.erase(index)
valErase(val, index) == [x \in DOMAIN val \ {index} |-> val[x]]

RECURSIVE literalsCountFrom(_, _)
literalsCountFrom(formula, p) ==
    IF p > Len(formula) THEN 0
    ELSE Len(formula[p]) + literalsCountFrom(formula, p + 1)

literalsCount(formula) == literalsCountFrom(formula, 1)

\* the loop of unitPropagation from clause p on
RECURSIVE unitPropagationFrom(_, _, _)
unitPropagationFrom(formula, p, val) ==
    IF p > Len(formula) THEN val
    ELSE IF Len(formula[p]) = 1 /\ ~valCount(val, formula[p][1].index)
    THEN unitPropagationFrom(formula, p + 1,
             valAssign(val, formula[p][1].index,
                       formula[p][1].polarity = POSITIVE))
    ELSE unitPropagationFrom(formula, p + 1, val)

unitPropagation(formula, val) == unitPropagationFrom(formula, 1, val)

\* the variables with a literal of the polarity in the formula
indexesOf(formula, polarity) ==
    UNION {{formula[c][l].index :
               l \in {k \in DOMAIN formula[c] :
                         formula[c][k].polarity = polarity}} :
           c \in DOMAIN formula}

pureLiteralPropagation(formula, val) ==
    LET positives == indexesOf(formula, POSITIVE)
        negatives == indexesOf(formula, NEGATIVE)
        pure == ((positives \ negatives) \cup (negatives \ positives))
                    \ DOMAIN val
    IN  [x \in DOMAIN val \cup pure |->
            IF x \in DOMAIN val THEN val[x] ELSE x \in positives]

litTrue(lit, val) ==
    /\ valCount(val, lit.index)
    /\ \/ lit.polarity = POSITIVE /\ val[lit.index]
       \/ lit.polarity = NEGATIVE /\ ~val[lit.index]

clauseSatisfied(clause, val) ==
    \E l \in DOMAIN clause : litTrue(clause[l], val)

unassignedOf(val, lit) == ~valCount(val, lit.index)

\* nextClause of a clause that is not satisfied
nextClause(clause, val) ==
    SelectSeq(clause, LAMBDA lit : unassignedOf(val, lit))

\* the clauses pushed to nextFormula, from clause p on
RECURSIVE nextFormulaFrom(_, _, _)
nextFormulaFrom(formula, p, val) ==
    IF p > Len(formula) THEN <<>>
    ELSE IF clauseSatisfied(formula[p], val)
    THEN nextFormulaFrom(formula, p + 1, val)
    ELSE <<nextClause(formula[p], val)>>
            \o nextFormulaFrom(formula, p + 1, val)

\* lines 99-127 with the valuation extended; returns [verdict, formula, val]
simplifyOnceWith(formula, val) ==
    IF \E p \in DOMAIN formula :
          /\ ~clauseSatisfied(formula[p], val)
          /\ nextClause(formula[p], val) = <<>>
    THEN [verdict |-> UNSATISFIABLE, formula |-> formula, val |-> val]
    ELSE IF nextFormulaFrom(formula, 1, val) = <<>>
    THEN [verdict |-> SATISFIABLE, formula |-> formula, val |-> val]
    ELSE [verdict |-> NO_VERDICT,
          formula |-> nextFormulaFrom(formula, 1, val), val |-> val]

simplifyOnce(formula, val) ==
    simplifyOnceWith(formula,
        pureLiteralPropagation(formula, unitPropagation(formula, val)))

\* returns [verdict, formula, val]
RECURSIVE simplify(_, _)
simplify(formula, val) ==
    LET once == simplifyOnce(formula, val)
    IN  IF once.verdict # NO_VERDICT
        THEN [verdict |-> once.verdict, formula |-> <<>>,
              val |-> IF once.verdict = UNSATISFIABLE THEN Valuation
                      ELSE once.val]
        ELSE IF literalsCount(formula) > literalsCount(once.formula)
        THEN simplify(once.formula, once.val)
        ELSE once

RECURSIVE power2(_)
power2(n) == IF n = 0 THEN 1 ELSE 2 * power2(n - 1)

longestClause(formula) ==
    CHOOSE n \in {Len(formula[c]) : c \in DOMAIN formula} :
        \A c \in DOMAIN formula : Len(formula[c]) <= n

\* scores[index] of getBestBranch, times 2^longestClause(formula): the sum,
\* over the literals of the variable, of 1 / 2^length of their clause
RECURSIVE scoreFrom(_, _, _)
scoreFrom(formula, p, index) ==
    IF p > Len(formula) THEN 0
    ELSE Cardinality({l \in DOMAIN formula[p] : formula[p][l].index = index})
             * power2(longestClause(formula) - Len(formula[p]))
         + scoreFrom(formula, p + 1, index)

\* the first index of the map whose score is above all scores before it;
\* 0 for a formula without literals
getBestBranch(formula) ==
    LET indexes == indexesOf(formula, POSITIVE) \cup indexesOf(formula, NEGATIVE)
    IN  IF indexes = {} THEN 0
        ELSE CHOOSE best \in indexes :
                 \A x \in indexes :
                     \/ scoreFrom(formula, 1, x) < scoreFrom(formula, 1, best)
                     \/ /\ scoreFrom(formula, 1, x) = scoreFrom(formula, 1, best)
                        /\ best <= x

\* st is [formula, currentVal, vrd, satisfVal], the object's formula and the
\* three reference parameters
RECURSIVE solveDPHelper(_)
solveDPBranches(st, branch, formulaCopy) ==
    LET trueBranch ==
            solveDPHelper([st EXCEPT
                !.currentVal = valAssign(@, branch, TRUE)])
    IN  IF trueBranch.vrd = SATISFIABLE THEN trueBranch
        ELSE solveDPHelper([trueBranch EXCEPT
                 !.formula = formulaCopy,
                 !.currentVal = valAssign(valErase(@, branch), branch, FALSE)])

solveDPInferred(st, infer) ==
    IF infer.verdict = UNSATISFIABLE
    THEN [st EXCEPT !.formula = infer.formula, !.currentVal = infer.val]
    ELSE IF infer.verdict = SATISFIABLE
    THEN [st EXCEPT !.formula = infer.formula, !.currentVal = infer.val,
                    !.vrd = SATISFIABLE, !.satisfVal = infer.val]
    ELSE solveDPBranches(
             [st EXCEPT !.formula = infer.formula, !.currentVal = infer.val],
             getBestBranch(infer.formula), infer.formula)

solveDPHelper(st) == solveDPInferred(st, simplify(st.formula, st.currentVal))

solveDPEnd(st) ==
    [verdict |-> st.vrd, formula |-> <<>>,
     val |-> IF st.vrd = UNSATISFIABLE THEN Valuation ELSE st.currentVal]

\* returns [verdict, formula, val]: the verdict, the formula of the object
\* and the caller's valuation after the call
solveDP(formula, val) ==
    solveDPEnd(solveDPHelper([formula |-> formula, currentVal |-> val,
                              vrd |-> UNSATISFIABLE, satisfVal |-> Valuation]))

(***************************************************************************)
(* A caller of one Formula: addClause with any clause, then solveDP with   *)
(* an empty valuation.  reference is the sequence of the clauses added.    *)
(***************************************************************************)
DpMaxVars == 2

DpMaxLen == 2

DpMaxClauses == 3

DpLiterals == {Literal(p, x) : p \in {POSITIVE, NEGATIVE}, x \in 1..DpMaxVars}

DpClauses == UNION {[1..n -> DpLiterals] : n \in 0..DpMaxLen}

DpInit ==
    /\ pc = "formula"
    /\ unit = [formula |-> <<>>]
    /\ reference = <<>>
    /\ ret = NULL
    /\ brodal = NULL
    /\ avl = NULL
    /\ script = NULL
    /\ links = NULL
    /\ linked = NULL
    /\ forestObj = NULL
    /\ mainIdle

dpRest ==
    <<instance, genVars, pipeVars, brodal, avl, script, links, linked,
      forestObj>>

DpAddClause ==
    /\ pc = "formula"
    /\ Len(unit.formula) < DpMaxClauses
    /\ \E clause \in DpClauses :
          /\ unit' = [formula |-> Append(unit.formula, clause)]
          /\ reference' = Append(reference, clause)
    /\ UNCHANGED <<pc, ret, dpRest>>

\* Valuation val; Verdict verdict = phi.solveDP(val);
DpSolve ==
    /\ pc = "formula"
    /\ unit' = [formula |-> solveDP(unit.formula, Valuation).formula]
    /\ ret' = [verdict |-> solveDP(unit.formula, Valuation).verdict,
               val |-> solveDP(unit.formula, Valuation).val]
    /\ pc' = "returned"
    /\ UNCHANGED <<reference, dpRest>>

DpNext ==
    \/ DpAddClause
    \/ DpSolve

SpecDP == DpInit /\ [][DpNext]_vars

(***************************************************************************)
(* Properties of solveDP.                                                  *)
(***************************************************************************)
\* a total assignment of the variables makes every clause true
Satisfies(assignment, clauses) ==
    \A c \in DOMAIN clauses :
        \E l \in DOMAIN clauses[c] :
            assignment[clauses[c][l].index]
                = (clauses[c][l].polarity = POSITIVE)

IsSatisfiable(clauses) ==
    \E assignment \in [1..DpMaxVars -> BOOLEAN] : Satisfies(assignment, clauses)

\* each clause holds a literal made true by an entry of the valuation
SatisfiedByEntries(val, clauses) ==
    \A c \in DOMAIN clauses : clauseSatisfied(clauses[c], val)

DpVerdictRight ==
    pc = "returned" =>
        /\ ret.verdict \in {SATISFIABLE, UNSATISFIABLE}
        /\ (ret.verdict = SATISFIABLE) <=> IsSatisfiable(reference)

DpEmptyWhenRefuted ==
    (pc = "returned" /\ ret.verdict = UNSATISFIABLE) => ret.val = Valuation

\* C24: solveDP called with an empty valuation returns SATISFIABLE iff the
\* clauses added are satisfiable; when it returns SATISFIABLE every clause
\* added holds a literal made true by an entry of the valuation returned,
\* and when it returns UNSATISFIABLE the valuation returned is empty.
C24_SolveDPValuation ==
    /\ DpVerdictRight
    /\ DpEmptyWhenRefuted
    /\ (pc = "returned" /\ ret.verdict = SATISFIABLE) =>
           SatisfiedByEntries(ret.val, reference)
====
